---- MODULE Spec2Model ----
(***************************************************************************)
(* A model of ArbitrageBetTracker: the arbitrage engine of arbitrage.py    *)
(* (calculate_arbitrage, find_arbitrage_opportunities) and                 *)
(* bet_calculator.py (calculate_optimal_stakes); the normalizer, the key   *)
(* builder and the response parsers of api_parsers.py; the key the         *)
(* scrapers of scraper.py give an event; the odds store of data_store.py   *)
(* on the database of db_service.py; the opportunity table and the caches  *)
(* data_store.py keeps of it, alone and under concurrent calls; the retry  *)
(* loop of scraper.make_request; the bot thread and stop_bot of cli.py;    *)
(* the refresh timers of app.py; and                                       *)
(* bet_calculator.recommend_best_odds_combination.                         *)
(*                                                                         *)
(* Python floats are modelled as exact rationals <<n, d>> (d > 0, lowest   *)
(* terms): the model decides what the arithmetic computes over the reals   *)
(* and says nothing about the last bits of a double.  There is one         *)
(* specification per part of the program; each holds the variables of the  *)
(* other parts at their idle values.                                       *)
(***************************************************************************)
EXTENDS Integers, Sequences, FiniteSets, TLC

VARIABLES
    pc,          \* which function the modelled call runs, and whether it has returned
    odds_list,   \* calculate_arbitrage / calculate_optimal_stakes: the odds argument
    stake,       \* calculate_arbitrage: stake; calculate_optimal_stakes: total_investment
    calc_result, \* what the call returned (or that it raised)
    all_odds,    \* find_arbitrage_opportunities: bookmaker -> list of match dicts
    profit_threshold, \* find_arbitrage_opportunities: the profit_threshold argument
    boosts,      \* the np.random.uniform draws of the last find_arbitrage_opportunities call
    find_result, \* what find_arbitrage_opportunities returned (or that it raised)
    second_result, \* what a second call on the same arguments returned, and its draws
    name,        \* normalize_team_name: the argument, a sequence of characters
    norm_result, \* normalize_team_name: the returned string, then the one of a second pass
    team1,       \* match_key / scraper key: the first team name
    team2,       \* match_key / scraper key: the second team name
    key_calls,   \* the keys the calls made so far returned, by call
    response,    \* parse_*_odds: the response_data argument
    parse_result, \* parse_*_odds: the parser called and the list it returned
    db_bookmakers, \* database: the names of the rows of table bookmakers
    db_matches,  \* database: the rows of table matches, each with its odds rows
    odds_cache,  \* data_store.odds_cache
    cache_fresh, \* whether less than 60 s have passed since last_cache_update
    store_calls, \* the update_odds calls so far: arguments, success, held matches before
    get_result, \* what the last get_odds call returned, and after how many updates
    db_opps, \* database: the rows of table arbitrage_opportunities
    opp_call, \* the last call on the opportunities: function, argument, value returned
    now, \* the clock, in seconds since the module was imported
    last_cache_update, \* data_store.last_cache_update, in seconds of the clock
    opportunities_cache, \* data_store.opportunities_cache
    odds_fetched_at, \* when the value held by odds_cache was read from the database
    opps_fetched_at, \* when the value held by opportunities_cache was read from the database
    cache_read, \* the last read of a cache: function, argument, table read, value returned, age
    thread_pc, \* concurrent calls: the statement each thread is at
    thread_local, \* concurrent calls: the local variables of each thread
    thread_calls, \* concurrent calls: the calls that have returned, with what they returned
    max_retries, \* make_request: the max_retries argument
    attempt, \* make_request: the loop variable
    attempts, \* make_request: the outcome of every requests.get so far, in order
    sleeps, \* make_request: the arguments of the time.sleep calls so far, in order
    request_result, \* make_request: what the call returned, or the exception it raised
    running, \* cli.running, the module global
    cli_args, \* start_bot: refresh_interval and max_runtime, in minutes
    cli_pc, \* cli: the statement the bot thread and the main thread are at
    elapsed, \* start_bot: minutes since start_time
    sleep_i, \* start_bot: the minutes slept in the sleep loop of this pass
    stop_called, \* cli: whether stop_bot has been called
    pass_after_stop, \* cli: whether the loop test of the current pass came after stop_bot
    cycles, \* cli: the update_data calls begun
    is_running, \* app: st.session_state.is_running
    timers, \* app: the threading.Timer objects started and not yet fired
    updating, \* app: the update_data calls running in timer threads
    dash_cycles, \* app: the update_data calls begun
    stopped_cycles, \* app: the update_data calls begun while is_running was false
    odds_data, \* recommend_best_odds_combination: per outcome, in key order, the list of available odds
    recommend_result \* recommend_best_odds_combination: what the call returned or raised

vars == <<pc, odds_list, stake, calc_result, all_odds, profit_threshold, boosts,
          find_result, second_result, name, norm_result, team1, team2, key_calls,
          response, parse_result, db_bookmakers, db_matches, odds_cache, cache_fresh,
          store_calls, get_result,
          db_opps, opp_call,
          now, last_cache_update, opportunities_cache, odds_fetched_at, opps_fetched_at, cache_read,
          thread_pc, thread_local, thread_calls,
          max_retries, attempt, attempts, sleeps, request_result,
          running, cli_args, cli_pc, elapsed, sleep_i, stop_called, pass_after_stop, cycles,
          is_running, timers, updating, dash_cycles, stopped_cycles,
          odds_data, recommend_result>>

calcVars == <<odds_list, stake, calc_result>>
findVars == <<all_odds, profit_threshold, boosts, find_result, second_result>>
normVars == <<name, norm_result>>
keyVars == <<team1, team2, key_calls>>
parseVars == <<response, parse_result>>
storeVars == <<db_bookmakers, db_matches, odds_cache, cache_fresh, store_calls, get_result>>
oppVars == <<db_opps, opp_call>>
cacheVars == <<now, last_cache_update, opportunities_cache, odds_fetched_at, opps_fetched_at, cache_read>>
\* what the calls of one part leave alone: the variables of the others
threadVars == <<thread_pc, thread_local, thread_calls>>
requestVars == <<max_retries, attempt, attempts, sleeps, request_result>>
cliVars == <<running, cli_args, cli_pc, elapsed, sleep_i, stop_called, pass_after_stop, cycles>>
dashVars == <<is_running, timers, updating, dash_cycles, stopped_cycles>>
recommendVars == <<odds_data, recommend_result>>
notCalcVars == <<findVars, normVars, keyVars, parseVars, storeVars, oppVars, cacheVars, threadVars, requestVars, cliVars, dashVars, recommendVars>>
notFindVars == <<calcVars, normVars, keyVars, parseVars, storeVars, oppVars, cacheVars, threadVars, requestVars, cliVars, dashVars, recommendVars>>
notNormVars == <<calcVars, findVars, keyVars, parseVars, storeVars, oppVars, cacheVars, threadVars, requestVars, cliVars, dashVars, recommendVars>>
notKeyVars == <<calcVars, findVars, normVars, parseVars, storeVars, oppVars, cacheVars, threadVars, requestVars, cliVars, dashVars, recommendVars>>
notParseVars == <<calcVars, findVars, normVars, keyVars, storeVars, oppVars, cacheVars, threadVars, requestVars, cliVars, dashVars, recommendVars>>
notStoreVars == <<calcVars, findVars, normVars, keyVars, parseVars, oppVars, cacheVars, threadVars, requestVars, cliVars, dashVars, recommendVars>>
notOppVars == <<calcVars, findVars, normVars, keyVars, parseVars, storeVars, cacheVars, threadVars, requestVars, cliVars, dashVars, recommendVars>>
notCacheVars == <<calcVars, findVars, normVars, keyVars, parseVars, storeVars, oppVars, threadVars, requestVars, cliVars, dashVars, recommendVars>>
\* the variables no call on the database or on the caches of data_store writes
notDataVars == <<calcVars, findVars, normVars, keyVars, parseVars, threadVars, requestVars, cliVars, dashVars, recommendVars>>
\* the variables no step of the concurrent calls writes, the database and the caches apart
notThreadDataVars == <<calcVars, findVars, normVars, keyVars, parseVars, requestVars, cliVars, dashVars, recommendVars>>
notThreadVars == <<calcVars, findVars, normVars, keyVars, parseVars, storeVars, oppVars, cacheVars, requestVars, cliVars, dashVars, recommendVars>>
notRequestVars == <<calcVars, findVars, normVars, keyVars, parseVars, storeVars, oppVars, cacheVars, threadVars, cliVars, dashVars, recommendVars>>
notCliVars == <<calcVars, findVars, normVars, keyVars, parseVars, storeVars, oppVars, cacheVars, threadVars, requestVars, dashVars, recommendVars>>
notDashVars == <<calcVars, findVars, normVars, keyVars, parseVars, storeVars, oppVars, cacheVars, threadVars, requestVars, cliVars, recommendVars>>
notRecommendVars == <<calcVars, findVars, normVars, keyVars, parseVars, storeVars, oppVars, cacheVars, threadVars, requestVars, cliVars, dashVars>>

(***************************************************************************)
(* Bounds of the model.                                                    *)
(***************************************************************************)
MaxLegs == 3
MaxEvents == 2
MaxPieces == 3
MaxKeyPieces == 2
MaxMatches == 2
MaxRecords == 3
MaxStoreEvents == 2
MaxUpdates == 2
MaxOppCalls == 4
MaxTicks == 3
MaxReads == 2
MaxRetries == 4
MaxMinutes == 3
MaxCycles == 6
MaxQuotes == 2
MaxOutcomes == 2

(***************************************************************************)
(* Exact rational arithmetic, standing for Python's float operations.      *)
(***************************************************************************)
Abs(x) == IF x < 0 THEN -x ELSE x

RECURSIVE Gcd(_, _)
Gcd(a, b) == IF b = 0 THEN a ELSE Gcd(b, a % b)

Rat(n, d) ==
    LET g == Gcd(Abs(n), Abs(d))
        s == IF d < 0 THEN -1 ELSE 1
    IN  <<(s * n) \div g, (s * d) \div g>>

RInt(n) == <<n, 1>>
RZero == RInt(0)
ROne == RInt(1)
RAdd(a, b) == Rat(a[1] * b[2] + b[1] * a[2], a[2] * b[2])
RSub(a, b) == Rat(a[1] * b[2] - b[1] * a[2], a[2] * b[2])
RMul(a, b) == Rat(a[1] * b[1], a[2] * b[2])
RDiv(a, b) == Rat(a[1] * b[2], a[2] * b[1])
RLt(a, b) == a[1] * b[2] < b[1] * a[2]
RLe(a, b) == a[1] * b[2] <= b[1] * a[2]
RGt(a, b) == RLt(b, a)
RGe(a, b) == RLe(b, a)

RECURSIVE RSum(_)
RSum(s) == IF s = <<>> THEN RZero ELSE RAdd(Head(s), RSum(Tail(s)))

Recip(odd) == RDiv(ROne, odd)

(***************************************************************************)
(* arbitrage.calculate_arbitrage                                           *)
(***************************************************************************)
\* The dict both early returns build: no 'investment' key.
NoArbitrageResult ==
    [is_arbitrage |-> FALSE, profit_percentage |-> RZero,
     individual_stakes |-> <<>>, expected_return |-> RZero]

\* `not odds_list or any(odd <= 1.0 for odd in odds_list)`
InvalidOddsList(odds) ==
    odds = <<>> \/ \E i \in 1..Len(odds) : RLe(odds[i], ROne)

\* `sum(1/odd for odd in odds_list)`
SumReciprocals(odds) == RSum([i \in 1..Len(odds) |-> Recip(odds[i])])

NoArbitrageSum_Strict(sum_reciprocals) == RGt(sum_reciprocals, ROne)

\* `if sum_reciprocals >= 1`
NoArbitrageSum(sum_reciprocals) == RGe(sum_reciprocals, ROne)

\* `(1 - sum_reciprocals) * 100`
ProfitPercentage(sum_reciprocals) == RMul(RSub(ROne, sum_reciprocals), RInt(100))

IndividualStakes_Unnormalised(odds, stk, sum_reciprocals) ==
    [i \in 1..Len(odds) |-> RMul(stk, Recip(odds[i]))]

\* `[(stake * (1/odd)) / sum_reciprocals for odd in odds_list]`
IndividualStakes(odds, stk, sum_reciprocals) ==
    [i \in 1..Len(odds) |-> RDiv(RMul(stk, Recip(odds[i])), sum_reciprocals)]

calculate_arbitrage(odds, stk) ==
    IF InvalidOddsList(odds) THEN NoArbitrageResult
    ELSE LET sum_reciprocals == SumReciprocals(odds) IN
         IF NoArbitrageSum(sum_reciprocals) THEN NoArbitrageResult
         ELSE LET individual_stakes == IndividualStakes(odds, stk, sum_reciprocals) IN
              [is_arbitrage |-> TRUE,
               profit_percentage |-> ProfitPercentage(sum_reciprocals),
               individual_stakes |-> individual_stakes,
               expected_return |-> RMul(individual_stakes[1], odds[1]),
               investment |-> stk]

(***************************************************************************)
(* bet_calculator.calculate_optimal_stakes                                 *)
(***************************************************************************)
\* 1/odds of a zero odds value, or the division by a zero total, raises
\* ZeroDivisionError.
OptimalStakesRaises(odds) ==
    \/ \E i \in 1..Len(odds) : odds[i][1] = 0
    \/ (odds # <<>> /\ SumReciprocals(odds) = RZero)

calculate_optimal_stakes(odds, total_investment) ==
    LET total_implied_prob == SumReciprocals(odds)
        is_arbitrage == RLt(total_implied_prob, ROne)
        individual_stakes ==
            [i \in 1..Len(odds) |->
                RDiv(RMul(total_investment, Recip(odds[i])), total_implied_prob)]
        expected_return ==
            IF RGt(total_implied_prob, RZero)
            THEN RDiv(total_investment, total_implied_prob) ELSE RZero
        expected_profit == RSub(expected_return, total_investment)
    IN  [is_arbitrage |-> is_arbitrage,
         profit_percentage |->
            IF is_arbitrage THEN ProfitPercentage(total_implied_prob) ELSE RZero,
         individual_stakes |-> individual_stakes,
         sum_stakes |-> RSum(individual_stakes),
         expected_return |-> expected_return,
         expected_profit |-> expected_profit,
         roi |-> IF RGt(total_investment, RZero)
                 THEN RMul(RDiv(expected_profit, total_investment), RInt(100))
                 ELSE RZero,
         investment |-> total_investment]

(***************************************************************************)
(* bet_calculator.recommend_best_odds_combination                          *)
(*                                                                         *)
(* odds_data is the sequence, in the dict's key order, of the outcomes'    *)
(* lists of odds; a combination is a sequence with one odds value per      *)
(* outcome, and the returned dict zips it with the keys.                   *)
(***************************************************************************)
\* generate_combinations([], 0): the first outcome's odds vary slowest
RECURSIVE generate_combinations(_)
generate_combinations(data) ==
    IF data = <<>> THEN << <<>> >>
    ELSE LET rest == generate_combinations(Tail(data))
             RECURSIVE ForOdds(_)
             ForOdds(quotes) ==
                IF quotes = <<>> THEN <<>>
                ELSE [i \in 1..Len(rest) |-> <<Head(quotes)>> \o rest[i]]
                        \o ForOdds(Tail(quotes))
         IN  ForOdds(Head(data))

\* calculate_optimal_stakes(combo) raises for a zero odds value
RecommendRaises(data) ==
    \E i \in 1..Len(generate_combinations(data)) :
       OptimalStakesRaises(generate_combinations(data)[i])

\* the first loop: `result['is_arbitrage'] and result['expected_profit'] > highest_profit`
RECURSIVE HighestProfit(_, _)
HighestProfit(combinations, best) ==
    IF combinations = <<>> THEN best
    ELSE \* one evaluation of the call per combination
         LET result == calculate_optimal_stakes(Head(combinations), RInt(100))
         IN  HighestProfit(Tail(combinations),
                IF result.is_arbitrage /\ RGt(result.expected_profit, best.highest_profit)
                THEN [is_none |-> FALSE, highest_profit |-> result.expected_profit,
                      best_combination |-> Head(combinations), best_result |-> result]
                ELSE best)

\* the second loop: `-result['profit_percentage'] < lowest_loss`, from infinity
RECURSIVE LowestLoss(_, _)
LowestLoss(combinations, best) ==
    IF combinations = <<>> THEN best
    ELSE LET result == calculate_optimal_stakes(Head(combinations), RInt(100))
             profit_loss == RSub(RZero, result.profit_percentage)
         IN  LowestLoss(Tail(combinations),
                IF best.is_none \/ RLt(profit_loss, best.lowest_loss)
                THEN [is_none |-> FALSE, lowest_loss |-> profit_loss,
                      best_combination |-> Head(combinations), best_result |-> result]
                ELSE best)

\* `best_result = None`, left so when there is no combination
NoBestResult == "None"

recommend_best_odds_combination(data) ==
    LET combinations == generate_combinations(data)
        first == HighestProfit(combinations, [is_none |-> TRUE, highest_profit |-> RZero])
        best == IF first.is_none
                THEN LowestLoss(combinations, [is_none |-> TRUE])
                ELSE first
    IN  IF best.is_none
        THEN [combination |-> <<>>, calculations |-> NoBestResult]
        ELSE [combination |-> best.best_combination, calculations |-> best.best_result]

(***************************************************************************)
(* arbitrage.find_arbitrage_opportunities                                  *)
(*                                                                         *)
(* A match dict is [normalized_match, outcomes], outcomes a function from  *)
(* the outcome types it quotes to their odds.  all_odds maps each          *)
(* bookmaker to its list of match dicts; a dict iterates in insertion      *)
(* order, here BookmakerOrder.  Every match dict carries the key           *)
(* normalized_match, as every producer of match dicts sets it; the title,  *)
(* sport, league and start_time the opportunity copies from the home leg's *)
(* match dict, and discovered_at, are left out.                            *)
(***************************************************************************)
Bookmakers == {"b1", "b2"}
BookmakerOrder == <<"b1", "b2">>
Keys == {"k1", "k2"}
SlotOrder == <<"home", "draw", "away">>
Slots == {"home", "draw", "away"}

RECURSIVE FlattenFrom(_, _)
FlattenFrom(ao, n) ==
    IF n > Len(BookmakerOrder) THEN <<>>
    ELSE LET b == BookmakerOrder[n] IN
         [i \in 1..Len(ao[b]) |-> [bookmaker |-> b, match_data |-> ao[b][i]]]
            \o FlattenFrom(ao, n + 1)

\* `for bookmaker, matches in all_odds.items(): for match in matches:`
Flatten(ao) == FlattenFrom(ao, 1)

RECURSIVE GroupKeys(_)
\* the keys of match_odds_by_name, in the order of their first insertion
GroupKeys(flat) ==
    IF flat = <<>> THEN <<>>
    ELSE LET k == Head(flat).match_data.normalized_match
             IsOther(e) == e.match_data.normalized_match # k
         IN  <<k>> \o GroupKeys(SelectSeq(Tail(flat), IsOther))

\* match_odds_by_name[normalized_name]
Group(flat, k) ==
    LET HasKey(e) == e.match_data.normalized_match = k
    IN  SelectSeq(flat, HasKey)

\* `if len(bookmaker_matches) < 2: continue`
TooFewMatches(bookmaker_matches) == Len(bookmaker_matches) < 2

InitialBestOdds == [s \in Slots |-> [odds |-> RZero, bookmaker |-> "None"]]

BetterOdds_OrEqual(current_odds, best) == RGe(current_odds, best)

\* `if current_odds > best_odds[outcome_type]['odds']`
BetterOdds(current_odds, best) == RGt(current_odds, best)

UpdateBestOdds(best_odds, bm_match) ==
    LET outcomes == bm_match.match_data.outcomes IN
    [s \in Slots |->
        IF s \in DOMAIN outcomes /\ BetterOdds(outcomes[s], best_odds[s].odds)
        THEN [odds |-> outcomes[s], bookmaker |-> bm_match.bookmaker]
        ELSE best_odds[s]]

RECURSIVE BestOddsFrom(_, _)
BestOddsFrom(best_odds, bookmaker_matches) ==
    IF bookmaker_matches = <<>> THEN best_odds
    ELSE BestOddsFrom(UpdateBestOdds(best_odds, Head(bookmaker_matches)),
                      Tail(bookmaker_matches))

\* the loop `for bm_match in bookmaker_matches` over a fresh best_odds
BestOdds(bookmaker_matches) == BestOddsFrom(InitialBestOdds, bookmaker_matches)

\* `[data['odds'] for data in best_odds.values() if data['odds'] > 0]`
BestOddsList(best_odds) ==
    LET all == [i \in 1..Len(SlotOrder) |-> best_odds[SlotOrder[i]].odds]
        Positive(o) == RGt(o, RZero)
    IN  SelectSeq(all, Positive)

\* `if len(best_odds_list) != 3: continue`
MissingLeg(best_odds_list) == Len(best_odds_list) # 3

\* the three np.random.uniform draws applied to a copy of best_odds_list
BoostedOddsList(best_odds_list, b) ==
    <<RMul(best_odds_list[1], RAdd(ROne, b[1])),
      RMul(best_odds_list[2], RSub(ROne, b[2])),
      RMul(best_odds_list[3], RAdd(ROne, b[3]))>>

\* `if True:  # Force accepting all opportunities`
AcceptOpportunity(arbitrage_result, threshold) == TRUE

\* The slots the bets loop visits: those whose best odds are > 0.
BetSlots(best_odds) ==
    LET Quoted(s) == RGt(best_odds[s].odds, RZero)
    IN  SelectSeq(SlotOrder, Quoted)

\* `arbitrage_result['individual_stakes'][i]` raises IndexError on the empty
\* list of a non-arbitrage result, and `arbitrage_result['investment']`
\* KeyError on its missing key.
BuildRaises(best_odds, arbitrage_result) ==
    \/ \E i \in 1..Len(SlotOrder) :
          /\ RGt(best_odds[SlotOrder[i]].odds, RZero)
          /\ i > Len(arbitrage_result.individual_stakes)
    \/ "investment" \notin DOMAIN arbitrage_result

SlotIndex(s) == CHOOSE i \in 1..Len(SlotOrder) : SlotOrder[i] = s

BuildOpportunity(normalized_name, best_odds, arbitrage_result) ==
    LET slots == BetSlots(best_odds) IN
    [normalized_match |-> normalized_name,
     profit_percentage |-> arbitrage_result.profit_percentage,
     investment |-> arbitrage_result.investment,
     expected_return |-> arbitrage_result.expected_return,
     bets |-> [j \in 1..Len(slots) |->
                 [bookmaker |-> best_odds[slots[j]].bookmaker,
                  outcome |-> slots[j],
                  odds |-> best_odds[slots[j]].odds,
                  stake |-> arbitrage_result.individual_stakes[SlotIndex(slots[j])]]],
     is_active |-> TRUE]

\* One iteration of `for normalized_name, bookmaker_matches in ...`:
\* "skip" (a continue), "raise", or "opp" with the opportunity appended.
ProcessMatch(normalized_name, bookmaker_matches, b, threshold) ==
    IF TooFewMatches(bookmaker_matches) THEN [kind |-> "skip", analysed |-> FALSE]
    ELSE LET best_odds == BestOdds(bookmaker_matches)
             best_odds_list == BestOddsList(best_odds)
         IN
         IF MissingLeg(best_odds_list) THEN [kind |-> "skip", analysed |-> FALSE]
         ELSE LET arbitrage_result ==
                      calculate_arbitrage(BoostedOddsList(best_odds_list, b), RInt(100))
              IN
              IF ~AcceptOpportunity(arbitrage_result, threshold)
              THEN [kind |-> "skip", analysed |-> TRUE]
              ELSE IF BuildRaises(best_odds, arbitrage_result)
              THEN [kind |-> "raise", analysed |-> TRUE]
              ELSE [kind |-> "opp", analysed |-> TRUE,
                    opp |-> BuildOpportunity(normalized_name, best_odds, arbitrage_result)]

RECURSIVE ProcessMatches(_, _, _, _, _)
\* The loop over match_odds_by_name, from the n-th key on; acc is
\* [raised, opportunities, analysed] so far.  An exception ends the loop.
ProcessMatches(flat, keys, bfun, threshold, acc) ==
    IF keys = <<>> THEN acc
    ELSE LET k == Head(keys)
             r == ProcessMatch(k, Group(flat, k), bfun[k], threshold)
             analysed == IF r.analysed THEN acc.analysed \cup {k} ELSE acc.analysed
         IN
         IF r.kind = "raise"
         THEN [raised |-> TRUE, opportunities |-> acc.opportunities, analysed |-> analysed]
         ELSE ProcessMatches(flat, Tail(keys), bfun, threshold,
                [raised |-> FALSE,
                 opportunities |->
                    IF r.kind = "opp" THEN Append(acc.opportunities, r.opp)
                    ELSE acc.opportunities,
                 analysed |-> analysed])

StaysBefore_Strict(y, x) == RGt(y.profit_percentage, x.profit_percentage)

\* list.sort(reverse=True) is stable: an element y that precedes x in the list
\* stays before it unless x's key is strictly greater
StaysBefore(y, x) == RGe(y.profit_percentage, x.profit_percentage)

RECURSIVE InsertByProfit(_, _)
\* x goes behind every element whose profit is >= its own: a stable
\* descending order when the elements are inserted in list order.
InsertByProfit(x, sorted) ==
    IF sorted = <<>> THEN <<x>>
    ELSE IF StaysBefore(Head(sorted), x)
         THEN <<Head(sorted)>> \o InsertByProfit(x, Tail(sorted))
         ELSE <<x>> \o sorted

RECURSIVE SortByProfit(_)
\* `opportunities.sort(key=lambda x: x['profit_percentage'], reverse=True)`
SortByProfit(opps) ==
    IF opps = <<>> THEN <<>>
    ELSE InsertByProfit(opps[Len(opps)], SortByProfit(SubSeq(opps, 1, Len(opps) - 1)))

find_arbitrage_opportunities(ao, threshold, bfun) ==
    LET flat == Flatten(ao)
        r == ProcessMatches(flat, GroupKeys(flat), bfun, threshold,
                [raised |-> FALSE, opportunities |-> <<>>, analysed |-> {}])
    IN  IF r.raised
        THEN [raised |-> TRUE, opportunities |-> <<>>, analysed |-> r.analysed]
        ELSE [raised |-> FALSE, opportunities |-> SortByProfit(r.opportunities),
              analysed |-> r.analysed]

(***************************************************************************)
(* api_parsers.normalize_team_name                                         *)
(*                                                                         *)
(* A string is a sequence of one-character strings.                        *)
(***************************************************************************)
Str_fc == <<"f", "c">>
Str_f_c_ == <<"f", ".", "c", ".">>
Str_united == <<"u", "n", "i", "t", "e", "d">>
Str_utd == <<"u", "t", "d">>
Str_city == <<"c", "i", "t", "y">>

\* str.lower() on the characters of the model's alphabet
LowerChar(ch) ==
    CASE ch = "F" -> "f"
      [] ch = "C" -> "c"
      [] ch = "U" -> "u"
      [] OTHER -> ch

Lower(s) == [i \in 1..Len(s) |-> LowerChar(s[i])]

\* \s, on the characters of the model's alphabet
IsSpace(ch) == ch \in {" ", "\t"}
\* \w: letters, digits and the underscore, on the characters of the model's alphabet
IsWord(ch) ==
    ch \in {"a", "c", "d", "e", "f", "i", "n", "t", "u", "y", "C", "F", "U", "1", "_"}

WordAt(s, p) == p >= 1 /\ p <= Len(s) /\ IsWord(s[p])

\* \b before position p
Boundary(s, p) == WordAt(s, p - 1) # WordAt(s, p)

\* \b<tok>\b matches s at position i
TokenAt(s, i, tok) ==
    /\ i + Len(tok) - 1 <= Len(s)
    /\ SubSeq(s, i, i + Len(tok) - 1) = tok
    /\ Boundary(s, i)
    /\ Boundary(s, i + Len(tok))

RECURSIVE RemoveFrom(_, _, _)
\* re.sub(r'\b<t1>\b|\b<t2>\b...', '', s) from position i on: the leftmost
\* match, the first alternative that matches there, then on behind it.
RemoveFrom(s, i, toks) ==
    IF i > Len(s) THEN <<>>
    ELSE LET hits == {j \in 1..Len(toks) : TokenAt(s, i, toks[j])} IN
         IF hits = {} THEN <<s[i]>> \o RemoveFrom(s, i + 1, toks)
         ELSE LET j == CHOOSE x \in hits : \A y \in hits : x <= y
              IN  RemoveFrom(s, i + Len(toks[j]), toks)

RemoveTokens(s, toks) == RemoveFrom(s, 1, toks)

\* re.sub(r'[^\w\s]', '', s)
StripSpecial(s) ==
    LET Keep(ch) == IsWord(ch) \/ IsSpace(ch)
    IN  SelectSeq(s, Keep)

RECURSIVE CollapseFrom(_, _)
\* re.sub(r'\s+', ' ', s) from position i on
CollapseFrom(s, i) ==
    IF i > Len(s) THEN <<>>
    ELSE IF IsSpace(s[i])
         THEN IF i > 1 /\ IsSpace(s[i - 1]) THEN CollapseFrom(s, i + 1)
              ELSE <<" ">> \o CollapseFrom(s, i + 1)
         ELSE <<s[i]>> \o CollapseFrom(s, i + 1)

\* str.strip() of a string whose whitespace runs are single spaces
Strip(s) ==
    LET a == IF s # <<>> /\ IsSpace(s[1]) THEN Tail(s) ELSE s
    IN  IF a # <<>> /\ IsSpace(a[Len(a)]) THEN SubSeq(a, 1, Len(a) - 1) ELSE a

CollapseWhitespace(s) == Strip(CollapseFrom(s, 1))

normalize_team_name(s) ==
    IF s = <<>> THEN <<>>
    ELSE LET n1 == Lower(s)
             n2 == RemoveTokens(n1, <<Str_fc, Str_f_c_>>)
             n3 == RemoveTokens(n2, <<Str_united, Str_utd>>)
             n4 == RemoveTokens(n3, <<Str_city>>)
             n5 == StripSpecial(n4)
         IN  CollapseWhitespace(n5)

(***************************************************************************)
(* api_parsers.match_key, and the key the scraper module gives an event.   *)
(***************************************************************************)
\* the characters of the model in the order of their code points, which is
\* the order Python compares strings by
CodePointOrder ==
    <<"\t", " ", "-", ".", "1", "C", "F", "U", "_",
      "a", "b", "c", "d", "e", "f", "g", "h", "i", "j", "k", "l", "m",
      "n", "o", "p", "q", "r", "s", "t", "u", "v", "w", "x", "y", "z">>

CharRank(ch) == CHOOSE i \in 1..Len(CodePointOrder) : CodePointOrder[i] = ch

RECURSIVE StrLess(_, _)
\* a < b on Python strings
StrLess(a, b) ==
    IF a = <<>> THEN b # <<>>
    ELSE IF b = <<>> THEN FALSE
    ELSE IF a[1] = b[1] THEN StrLess(Tail(a), Tail(b))
    ELSE CharRank(a[1]) < CharRank(b[1])

\* the list [a, b] as it is: no sorting
SortedTeams_Unsorted(a, b) == <<a, b>>

\* sorted([a, b])
SortedTeams(a, b) == IF StrLess(b, a) THEN <<b, a>> ELSE <<a, b>>

Str_vs == <<" ", "v", "s", " ">>

\* the title "home vs away"
Title(home, away) == home \o Str_vs \o away

match_key(t1, t2) ==
    LET norm_team1 == normalize_team_name(t1)
        norm_team2 == normalize_team_name(t2)
        sorted_teams == SortedTeams(norm_team1, norm_team2)
    IN  sorted_teams[1] \o Str_vs \o sorted_teams[2]

\* scraper.normalize_team_name: the replacements dict, in its insertion order
Replacements ==
    <<<<<<"f", "c", " ">>, <<>>>>,
      <<<<" ", "f", "c">>, <<>>>>,
      <<<<"a", "f", "c", " ">>, <<>>>>,
      <<<<" ", "a", "f", "c">>, <<>>>>,
      <<<<" ", "u", "n", "i", "t", "e", "d">>, <<" ", "u", "t", "d">>>>,
      <<<<"u", "n", "i", "t", "e", "d", " ">>, <<"u", "t", "d", " ">>>>,
      <<<<"m", "a", "n", "c", "h", "e", "s", "t", "e", "r">>, <<"m", "a", "n">>>>,
      <<<<"t", "o", "t", "t", "e", "n", "h", "a", "m">>, <<"s", "p", "u", "r", "s">>>>,
      <<<<"w", "o", "l", "v", "e", "r", "h", "a", "m", "p", "t", "o", "n">>, <<"w", "o", "l", "v", "e", "s">>>>,
      <<<<"b", "r", "i", "g", "h", "t", "o", "n", " ", "a", "n", "d", " ", "h", "o", "v", "e">>, <<"b", "r", "i", "g", "h", "t", "o", "n">>>>>>

MatchesAt(s, i, old) ==
    i + Len(old) - 1 <= Len(s) /\ SubSeq(s, i, i + Len(old) - 1) = old

RECURSIVE ReplaceFrom(_, _, _, _)
\* s.replace(old, new) from position i on
ReplaceFrom(s, i, old, new) ==
    IF i > Len(s) THEN <<>>
    ELSE IF MatchesAt(s, i, old) THEN new \o ReplaceFrom(s, i + Len(old), old, new)
    ELSE <<s[i]>> \o ReplaceFrom(s, i + 1, old, new)

RECURSIVE ReplaceAll(_, _)
ReplaceAll(s, reps) ==
    IF reps = <<>> THEN s
    ELSE ReplaceAll(ReplaceFrom(s, 1, reps[1][1], reps[1][2]), Tail(reps))

RECURSIVE StripWhitespace(_)
\* str.strip()
StripWhitespace(s) ==
    IF s = <<>> THEN s
    ELSE IF IsSpace(s[1]) THEN StripWhitespace(Tail(s))
    ELSE IF IsSpace(s[Len(s)]) THEN StripWhitespace(SubSeq(s, 1, Len(s) - 1))
    ELSE s

scraper_normalize_team_name(s) == ReplaceAll(StripWhitespace(Lower(s)), Replacements)

RECURSIVE SplitFrom(_, _, _, _)
\* s.split(sep) from position i on, cur being the part read so far
SplitFrom(s, i, sep, cur) ==
    IF i > Len(s) THEN <<cur>>
    ELSE IF MatchesAt(s, i, sep) THEN <<cur>> \o SplitFrom(s, i + Len(sep), sep, <<>>)
    ELSE SplitFrom(s, i + 1, sep, Append(cur, s[i]))

Split(s, sep) == SplitFrom(s, 1, sep, <<>>)

\* the two statements the scrape_* functions run on an event: match_parts[1]
\* raises IndexError on a title without " vs "
scraper_normalized_match(title) ==
    LET match_parts == Split(title, Str_vs) IN
    IF Len(match_parts) < 2 THEN [raised |-> TRUE]
    ELSE [raised |-> FALSE,
          key |-> scraper_normalize_team_name(match_parts[1]) \o Str_vs
                  \o scraper_normalize_team_name(match_parts[2])]

(***************************************************************************)
(* api_parsers.parse_bet365_odds, parse_betfair_odds, parse_generic_odds   *)
(*                                                                         *)
(* Of a standardized match the model keeps id, match, normalized_match,    *)
(* outcomes (outcome type -> odds) and bookmaker.                          *)
(***************************************************************************)
\* a JSON null (None) where a string is expected
Null == <<"null">>
\* a price that is no number (None, "n/a"): float() rejects it, and comparing
\* it with a number raises TypeError
NotANumber == <<0, 0>>

Str_dash == <<" ", "-", " ">>
Str_1 == <<"1">>
Str_2 == <<"2">>
Str_X == <<"X">>
Str_Draw == <<"D", "r", "a", "w">>
Str_Home == <<"H", "o", "m", "e">>
Str_Away == <<"A", "w", "a", "y">>

\* `sub in s`
Contains(s, sub) == \E i \in 1..Len(s) : MatchesAt(s, i, sub)

ContainsAny(s, subs) == \E j \in 1..Len(subs) : Contains(s, subs[j])

\* `teams = match_name.split(" vs ")` ... `home_team, away_team = teams`, or
\* the whole name and "" when neither separator gives two parts
SplitTeams(match_name) ==
    LET by_vs == Split(match_name, Str_vs)
        teams == IF Len(by_vs) # 2 THEN Split(match_name, Str_dash) ELSE by_vs
    IN  IF Len(teams) = 2 THEN teams ELSE <<match_name, <<>>>>

\* the if/elif chain of a "1X2" / "Match Result" selection and of a Betfair
\* runner; home_words and away_words are the substrings that also count
ResultSlot(sel_name, home_team, away_team, home_words, away_words) ==
    IF sel_name = home_team \/ ContainsAny(sel_name, home_words) THEN "home"
    ELSE IF sel_name = away_team \/ ContainsAny(sel_name, away_words) THEN "away"
    ELSE IF Contains(sel_name, Str_Draw) \/ Contains(sel_name, Str_X) THEN "draw"
    ELSE "none"

\* the if/elif of a "Match Winner" / "Winner" selection
WinnerSlot(sel_name, home_team, away_team) ==
    IF sel_name = home_team THEN "home"
    ELSE IF sel_name = away_team THEN "away"
    ELSE "none"

\* `outcomes[slot] = {..., "odds": price}`
SetOutcome(outcomes, slot, price) ==
    IF slot = "none" THEN outcomes
    ELSE [s \in DOMAIN outcomes \cup {slot} |-> IF s = slot THEN price ELSE outcomes[s]]

RECURSIVE ParseSelections(_, _, _, _, _, _, _)
\* the loop over market.get("selections"): float(price) raises on the first
\* selection whose price is no number
ParseSelections(selections, market_type, home_team, away_team, home_words, away_words, outcomes) ==
    IF selections = <<>> THEN [raised |-> FALSE, outcomes |-> outcomes]
    ELSE LET selection == Head(selections) IN
         IF selection.price = NotANumber THEN [raised |-> TRUE]
         ELSE ParseSelections(Tail(selections), market_type, home_team, away_team,
                 home_words, away_words,
                 SetOutcome(outcomes,
                    IF market_type \in {"1X2", "Match Result"}
                    THEN ResultSlot(selection.name, home_team, away_team,
                                    home_words, away_words)
                    ELSE WinnerSlot(selection.name, home_team, away_team),
                    selection.price))

RECURSIVE ParseMarkets(_, _, _, _, _, _)
\* the loop over event.get("markets")
ParseMarkets(markets, home_team, away_team, home_words, away_words, outcomes) ==
    IF markets = <<>> THEN [raised |-> FALSE, outcomes |-> outcomes]
    ELSE LET market == Head(markets) IN
         IF market.type \in {"1X2", "Match Result", "Match Winner", "Winner"}
         THEN LET r == ParseSelections(market.selections, market.type, home_team,
                                       away_team, home_words, away_words, outcomes)
              IN  IF r.raised THEN r
                  ELSE ParseMarkets(Tail(markets), home_team, away_team, home_words,
                                    away_words, r.outcomes)
         ELSE ParseMarkets(Tail(markets), home_team, away_team, home_words,
                           away_words, outcomes)

\* `if len(outcomes) < 2: continue`
TooFewOutcomes(outcomes) == Cardinality(DOMAIN outcomes) < 2

StandardizedMatch(id, match_name, teams, outcomes, bookmaker) ==
    [id |-> id, match |-> match_name, normalized_match |-> match_key(teams[1], teams[2]),
     outcomes |-> outcomes, bookmaker |-> bookmaker]

\* The body of the try block of parse_bet365_odds and parse_generic_odds for
\* one event: "raise" (None.split, float of a non-number), "skip" (the
\* continue) or "match" with the dict appended.
ParseEvent(event, home_words, away_words, bookmaker) ==
    IF event.name = Null THEN [kind |-> "raise"]
    ELSE LET teams == SplitTeams(event.name)
             r == ParseMarkets(event.markets, teams[1], teams[2], home_words,
                               away_words, <<>>)
         IN  IF r.raised THEN [kind |-> "raise"]
             ELSE IF TooFewOutcomes(r.outcomes) THEN [kind |-> "skip"]
             ELSE [kind |-> "match",
                   match |-> StandardizedMatch(event.id, event.name, teams, r.outcomes,
                                               bookmaker)]

RECURSIVE ParseEvents(_, _, _, _)
\* `for event in ...: try: ... except Exception: st.error(...); continue`
ParseEvents(events, home_words, away_words, bookmaker) ==
    IF events = <<>> THEN <<>>
    ELSE LET r == ParseEvent(Head(events), home_words, away_words, bookmaker)
             rest == ParseEvents(Tail(events), home_words, away_words, bookmaker)
         IN  IF r.kind = "match" THEN <<r.match>> \o rest ELSE rest

parse_bet365_odds(response_data) ==
    ParseEvents(response_data.records, <<Str_1>>, <<Str_2>>, "bet365")

parse_generic_odds(response_data, bookmaker) ==
    ParseEvents(response_data.records, <<Str_Home, Str_1>>, <<Str_Away, Str_2>>, bookmaker)

RECURSIVE RMax(_)
RMax(prices) ==
    IF Len(prices) = 1 THEN prices[1]
    ELSE LET m == RMax(Tail(prices)) IN IF RGe(prices[1], m) THEN prices[1] ELSE m

\* available_prices.sort(...) compares the prices: TypeError when there are
\* two or more and one is no number
SortRaises(available_prices) ==
    /\ Len(available_prices) >= 2
    /\ \E i \in 1..Len(available_prices) : available_prices[i] = NotANumber

\* best_price of a runner: 0 without prices, else the highest one
BestPrice(available_prices) ==
    IF available_prices = <<>> THEN RZero
    ELSE IF Len(available_prices) = 1 THEN available_prices[1]
    ELSE RMax(available_prices)

RECURSIVE ParseRunners(_, _, _, _)
\* the loop over market_book.get("runners")
ParseRunners(runners, home_team, away_team, outcomes) ==
    IF runners = <<>> THEN [raised |-> FALSE, outcomes |-> outcomes]
    ELSE LET runner == Head(runners) IN
         IF SortRaises(runner.availableToBack) THEN [raised |-> TRUE]
         ELSE ParseRunners(Tail(runners), home_team, away_team,
                 SetOutcome(outcomes,
                    ResultSlot(runner.runnerName, home_team, away_team,
                               <<Str_1>>, <<Str_2>>),
                    BestPrice(runner.availableToBack)))

\* The body of the loop of parse_betfair_odds for one market book.
ParseMarketBook(market_book) ==
    IF market_book.name = Null THEN [kind |-> "raise"]
    ELSE LET teams == SplitTeams(market_book.name)
             r == ParseRunners(market_book.runners, teams[1], teams[2], <<>>)
         IN  IF r.raised THEN [kind |-> "raise"]
             ELSE IF TooFewOutcomes(r.outcomes) THEN [kind |-> "skip"]
             ELSE [kind |-> "match",
                   match |-> StandardizedMatch(market_book.id, market_book.name, teams,
                                               r.outcomes, "betfair")]

RECURSIVE ParseMarketBooks(_)
\* `try: for market_book in response_data: ... except Exception: st.error(...)`:
\* the try block encloses the loop, an exception ends it
ParseMarketBooks(market_books) ==
    IF market_books = <<>> THEN <<>>
    ELSE LET r == ParseMarketBook(Head(market_books)) IN
         IF r.kind = "raise" THEN <<>>
         ELSE IF r.kind = "match" THEN <<r.match>> \o ParseMarketBooks(Tail(market_books))
         ELSE ParseMarketBooks(Tail(market_books))

parse_betfair_odds(response_data) == ParseMarketBooks(response_data.records)

(***************************************************************************)
(* db_service.store_matches_and_odds and get_all_matches_with_odds, and    *)
(* data_store.update_odds, get_odds, get_all_odds.                         *)
(*                                                                         *)
(* The database is the set of names of table bookmakers and the rows of    *)
(* table matches in the order of their primary keys; a row carries its     *)
(* odds rows as a map outcome type -> odds.  Of a match the model keeps    *)
(* id, match, normalized_match, is_active and the outcomes.                *)
(***************************************************************************)
\* None where a column is NOT NULL
NoneValue == "None"

\* func.lower(name) on the bookmaker names of the model
LowerName(bookmaker_name) == IF bookmaker_name = "B1" THEN "b1" ELSE bookmaker_name

\* get_or_create_bookmaker: the name of the row found, or of the row created
BookmakerRow(bookmakers, bookmaker_name) ==
    IF \E b \in bookmakers : LowerName(b) = LowerName(bookmaker_name)
    THEN CHOOSE b \in bookmakers : LowerName(b) = LowerName(bookmaker_name)
    ELSE bookmaker_name

\* `session.query(Match).filter(match_id == ..., bookmaker_id == ...).first()`:
\* the primary key of the row, 0 when there is none
ExistingMatch(rows, id, bookmaker) ==
    LET found == {i \in 1..Len(rows) : rows[i].match_id = id /\ rows[i].bookmaker = bookmaker}
    IN  IF found = {} THEN 0 ELSE CHOOSE i \in found : \A j \in found : i <= j

\* the columns both branches write; the old odds rows are deleted and the new
\* ones added, or the odds rows of the new match added
MatchRow(match_data, bookmaker) ==
    [match_id |-> match_data.id, bookmaker |-> bookmaker, match_name |-> match_data.match,
     normalized_match |-> match_data.normalized_match, is_active |-> match_data.is_active,
     outcomes |-> match_data.outcomes]

\* match_name and normalized_match are nullable=False: the flush raises
ViolatesNotNull(match_data) ==
    match_data.match = NoneValue \/ match_data.normalized_match = NoneValue

RECURSIVE StoreLoop(_, _, _)
\* `for match_data in matches_data:` on the rows the session sees
StoreLoop(rows, matches_data, bookmaker) ==
    IF matches_data = <<>> THEN [raised |-> FALSE, rows |-> rows]
    ELSE LET match_data == Head(matches_data)
             existing_match == ExistingMatch(rows, match_data.id, bookmaker)
         IN  IF ViolatesNotNull(match_data) THEN [raised |-> TRUE]
             ELSE StoreLoop(IF existing_match # 0
                            THEN [rows EXCEPT ![existing_match] = MatchRow(match_data, bookmaker)]
                            ELSE Append(rows, MatchRow(match_data, bookmaker)),
                            Tail(matches_data), bookmaker)

\* store_matches_and_odds on the database <<bookmakers, rows>>.  The bookmaker
\* row is committed by get_or_create_bookmaker; everything else is rolled back
\* when the call raises.  detached: get_or_create_bookmaker has created the
\* row, committed and closed the session, and reading bookmaker.id of the
\* expired, detached object raises DetachedInstanceError; whether it does
\* depends on the SQLAlchemy session and is left open.
store_matches_and_odds(bookmakers, rows, matches_data, bookmaker_name, detached) ==
    LET bookmaker == BookmakerRow(bookmakers, bookmaker_name)
        r == StoreLoop(rows, matches_data, bookmaker)
    IN  IF detached \/ r.raised
        THEN [raised |-> TRUE, bookmakers |-> bookmakers \cup {bookmaker}, rows |-> rows]
        ELSE [raised |-> FALSE, bookmakers |-> bookmakers \cup {bookmaker}, rows |-> r.rows]

\* the outcomes bookmaker.id can have in a call
DetachedOutcomes(bookmakers, matches_data, bookmaker_name) ==
    IF matches_data # <<>> /\ BookmakerRow(bookmakers, bookmaker_name) \notin bookmakers
    THEN {TRUE, FALSE}
    ELSE {FALSE}

\* the match_data dict get_all_matches_with_odds builds of a row
MatchData(row) ==
    [id |-> row.match_id, match |-> row.match_name, normalized_match |-> row.normalized_match,
     is_active |-> row.is_active, bookmaker |-> row.bookmaker, outcomes |-> row.outcomes]

RECURSIVE ActiveMatchesOf(_, _)
ActiveMatchesOf(rows, bookmaker) ==
    IF rows = <<>> THEN <<>>
    ELSE IF Head(rows).is_active /\ Head(rows).bookmaker = bookmaker
         THEN <<MatchData(Head(rows))>> \o ActiveMatchesOf(Tail(rows), bookmaker)
         ELSE ActiveMatchesOf(Tail(rows), bookmaker)

\* the dict bookmaker name -> list of the bookmaker's active matches
get_all_matches_with_odds(rows) ==
    [b \in {rows[i].bookmaker : i \in {j \in 1..Len(rows) : rows[j].is_active}} |->
        ActiveMatchesOf(rows, b)]

EmptyCache == <<>>

\* `if odds_cache and (now - last_cache_update).total_seconds() < 60`
CacheValid(cache, fresh) == cache # EmptyCache /\ fresh

\* get_all_odds: the dict returned, which is also the cache afterwards unless
\* the cache was valid
get_all_odds(cache, fresh, rows) ==
    IF CacheValid(cache, fresh) THEN cache ELSE get_all_matches_with_odds(rows)

\* `get_all_odds().get(bookmaker, [])`
DictGet(d, bookmaker) == IF bookmaker \in DOMAIN d THEN d[bookmaker] ELSE <<>>

(***************************************************************************)
(* db_service.store_arbitrage_opportunity, store_arbitrage_opportunities,  *)
(* mark_opportunity_inactive, clear_old_data and                           *)
(* get_arbitrage_opportunities.                                            *)
(*                                                                         *)
(* Table arbitrage_opportunities is the sequence of its rows in the order  *)
(* of their primary keys: the id of a row is its index, and no statement   *)
(* deletes a row.  Of a row the model keeps normalized_match,              *)
(* profit_percentage, is_active and start_time, an hour count in which     *)
(* NoStartTime stands for NULL.                                            *)
(***************************************************************************)
NoStartTime == 0

\* `func.abs(ArbitrageOpportunity.profit_percentage - ...) < 0.1`
NearEqualBound == Rat(1, 10)
RAbs(a) == <<Abs(a[1]), a[2]>>

\* the filter of the existing_opp query
SimilarOpportunity(row, opportunity_data) ==
    /\ row.normalized_match = opportunity_data.normalized_match
    /\ row.is_active
    /\ RLt(RAbs(RSub(row.profit_percentage, opportunity_data.profit_percentage)),
           NearEqualBound)

\* The ids `.first()` can return, 0 standing for None: the query has no
\* ORDER BY, so which of several similar rows comes first is the database's
\* choice.
ExistingOpportunities(rows, opportunity_data) ==
    LET found == {i \in 1..Len(rows) : SimilarOpportunity(rows[i], opportunity_data)}
    IN  IF found = {} THEN {0} ELSE found

\* the columns the update branch writes, of those the model keeps
UpdatedOpportunity(row, opportunity_data) ==
    [row EXCEPT !.profit_percentage = opportunity_data.profit_percentage]

\* the row the create branch adds
NewOpportunity(opportunity_data) ==
    [normalized_match |-> opportunity_data.normalized_match,
     profit_percentage |-> opportunity_data.profit_percentage,
     is_active |-> opportunity_data.is_active,
     start_time |-> opportunity_data.start_time]

\* store_arbitrage_opportunity, given the row the query returned
store_arbitrage_opportunity(rows, opportunity_data, existing_opp) ==
    IF existing_opp # 0
    THEN [rows EXCEPT ![existing_opp] = UpdatedOpportunity(rows[existing_opp], opportunity_data)]
    ELSE Append(rows, NewOpportunity(opportunity_data))

RECURSIVE store_arbitrage_opportunities(_, _)
\* store_arbitrage_opportunities: the tables the loop can leave
store_arbitrage_opportunities(rows, opportunities) ==
    IF opportunities = <<>> THEN {rows}
    ELSE UNION {store_arbitrage_opportunities(
                    store_arbitrage_opportunity(rows, Head(opportunities), existing_opp),
                    Tail(opportunities)) :
                existing_opp \in ExistingOpportunities(rows, Head(opportunities))}

MarkedInactive_Toggled(row) == [row EXCEPT !.is_active = ~row.is_active]

\* `opportunity.is_active = False`
MarkedInactive(row) == [row EXCEPT !.is_active = FALSE]

\* mark_opportunity_inactive: the bool returned and the table
mark_opportunity_inactive(rows, opportunity_id) ==
    IF opportunity_id \in 1..Len(rows)
    THEN [success |-> TRUE,
          rows |-> [rows EXCEPT ![opportunity_id] = MarkedInactive(rows[opportunity_id])]]
    ELSE [success |-> FALSE, rows |-> rows]

\* the filter of the second update of clear_old_data; a NULL start_time
\* compares as unknown and is not selected
OldOpportunity(row, cutoff_time) ==
    row.is_active /\ row.start_time # NoStartTime /\ row.start_time < cutoff_time

\* clear_old_data on the opportunities: opps_result and the table
clear_old_data(rows, cutoff_time) ==
    [opps_result |-> Cardinality({i \in 1..Len(rows) : OldOpportunity(rows[i], cutoff_time)}),
     rows |-> [i \in 1..Len(rows) |->
                  IF OldOpportunity(rows[i], cutoff_time)
                  THEN [rows[i] EXCEPT !.is_active = FALSE] ELSE rows[i]]]

\* The dict get_arbitrage_opportunities builds of the row with primary key id.
OpportunityDict(rows, id) ==
    [id |-> id, normalized_match |-> rows[id].normalized_match,
     profit_percentage |-> rows[id].profit_percentage, is_active |-> rows[id].is_active]

\* `order_by(profit_percentage.desc(), discovered_at.desc())`: discovered_at is
\* not kept, and among rows of equal profit the later row is taken to be the
\* one discovered later
OpportunityBefore(a, b) ==
    \/ RGt(a.profit_percentage, b.profit_percentage)
    \/ (a.profit_percentage = b.profit_percentage /\ a.id > b.id)

RECURSIVE InsertOpportunity(_, _)
InsertOpportunity(x, sorted) ==
    IF sorted = <<>> THEN <<x>>
    ELSE IF OpportunityBefore(x, Head(sorted)) THEN <<x>> \o sorted
         ELSE <<Head(sorted)>> \o InsertOpportunity(x, Tail(sorted))

RECURSIVE SelectOpportunities(_, _, _)
\* the rows of ids n, n-1, .. 1 the query selects, in its order
SelectOpportunities(rows, n, active_only) ==
    IF n = 0 THEN <<>>
    ELSE IF active_only /\ ~rows[n].is_active
         THEN SelectOpportunities(rows, n - 1, active_only)
         ELSE InsertOpportunity(OpportunityDict(rows, n),
                                SelectOpportunities(rows, n - 1, active_only))

\* db_service.get_arbitrage_opportunities(active_only), limit=None
db_get_arbitrage_opportunities(rows, active_only) ==
    SelectOpportunities(rows, Len(rows), active_only)

(***************************************************************************)
(* data_store.get_all_odds, get_arbitrage_opportunities and                *)
(* mark_opportunity_inactive on the clock: odds_cache and                  *)
(* opportunities_cache share the one timestamp last_cache_update.  Times   *)
(* are seconds.                                                            *)
(***************************************************************************)
\* `(datetime.now() - last_cache_update).total_seconds() < 60`
CacheLifetime == 60
\* `datetime.now() - timedelta(minutes=10)`
InvalidationAge == 600

Fresh(t, last) == t - last < CacheLifetime

RECURSIVE ActiveOnly(_)
\* `[opp for opp in opportunities_cache if opp.get('is_active', False)]`
ActiveOnly(opps) ==
    IF opps = <<>> THEN <<>>
    ELSE IF Head(opps).is_active THEN <<Head(opps)>> \o ActiveOnly(Tail(opps))
         ELSE ActiveOnly(Tail(opps))

\* `if opportunities_cache and (now - last_cache_update).total_seconds() < 60`
OpportunitiesCacheValid(cache, t, last) == cache # <<>> /\ Fresh(t, last)

\* data_store.get_arbitrage_opportunities(active_only): the list returned
get_arbitrage_opportunities(cache, t, last, rows, active_only) ==
    IF OpportunitiesCacheValid(cache, t, last)
    THEN IF active_only THEN ActiveOnly(cache) ELSE cache
    ELSE db_get_arbitrage_opportunities(rows, active_only)

(***************************************************************************)
(* scraper.make_request                                                    *)
(*                                                                         *)
(* An attempt is `requests.get` followed by `raise_for_status`; it gives a *)
(* response or raises a requests.RequestException (the HTTPError of        *)
(* raise_for_status is one).                                               *)
(***************************************************************************)
RequestExceptions == {"HTTPError", "ConnectionError", "Timeout"}
AttemptOutcomes == {"response"} \cup RequestExceptions

Backoff_Linear(k) == 2 * k

\* `time.sleep(2 ** attempt)`
Backoff(k) == 2 ^ k

\* `if attempt == max_retries - 1:`
LastAttempt(k, n) == k = n - 1

(***************************************************************************)
(* The inputs the calls are made on.                                       *)
(***************************************************************************)
SeqsUpTo(S, n) == UNION {[1..m -> S] : m \in 0..n}

\* odds values handed to the calculators: 0, 0.95, 1.0 (invalid), and valid ones.
\* On lists of these values the sum of reciprocals computed in doubles compares
\* with 1 as the exact sum does.
RecommendOdds == {RZero, Rat(3, 2), Rat(8, 5), RInt(2), Rat(21, 10), RInt(3)}
CalcOdds == {RZero, Rat(19, 20), ROne, Rat(3, 2), RInt(2), RInt(3), RInt(4), RInt(8)}
Stakes == {-50, 0, 100}

\* odds values a bookmaker quotes for an outcome type: 0.95 is an invalid quote
QuotedOdds(s) ==
    CASE s = "home" -> {Rat(19, 20), RInt(20)}
      [] s = "draw" -> {Rat(6, 5), RInt(20)}
      [] s = "away" -> {RInt(20)}
OutcomeMaps ==
    UNION {{o \in [S -> UNION {QuotedOdds(s) : s \in Slots}] :
               \A s \in S : o[s] \in QuotedOdds(s)} : S \in SUBSET Slots}
MatchDicts == [normalized_match : Keys, outcomes : OutcomeMaps]
Thresholds == {RZero, RInt(50)}

\* values np.random.uniform(0.1, 0.3), (0.05, 0.15) and (0.05, 0.25) can return
BoostChoices ==
    {<<a, b, c>> : a \in {Rat(1, 10), Rat(1, 4)},
                   b \in {Rat(1, 20), Rat(1, 10)},
                   c \in {Rat(1, 5)}}
NoBoost == <<>>

\* a batch in which both bookmakers quote every match on all three outcomes:
\* the matches, and the odds a bookmaker quotes for an outcome
KeyNames == <<"k1", "k2", "k3", "k4">>
RankKeys == {KeyNames[i] : i \in 1..MaxMatches}
RankOdds(s) == IF s = "home" THEN {RInt(4), RInt(20)} ELSE {RInt(20)}
RankMaps == {o \in [Slots -> {RInt(4), RInt(20)}] : \A s \in Slots : o[s] \in RankOdds(s)}
\* the orders in which a bookmaker can list the matches
KeyOrders == {o \in [1..MaxMatches -> RankKeys] : \A i, j \in 1..MaxMatches : o[i] = o[j] => i = j}

\* pieces team names are put together from
NamePieces ==
    {<<"a">>, <<"F">>, <<"c">>, <<"f">>, <<".">>, <<"-">>, <<" ">>, <<"\t">>, <<"_">>,
     <<"c", "i">>, <<"t", "y">>, <<"C", "i", "t", "y">>, <<"f", "c">>,
     <<"f", ".", "c", ".">>, <<"U", "t", "d">>, <<"u", "n", "i", "t", "e", "d">>}

RECURSIVE Concat(_)
Concat(ss) == IF ss = <<>> THEN <<>> ELSE Head(ss) \o Concat(Tail(ss))
Names == {Concat(ps) : ps \in SeqsUpTo(NamePieces, MaxPieces)}

\* pieces the team names handed to the key builders are put together from
KeyPieces == {<<"a">>, <<"c">>, <<" ">>, <<"F", "C">>, <<"U", "t", "d">>}
TeamNames == {Concat(ps) : ps \in SeqsUpTo(KeyPieces, MaxKeyPieces)}

\* the records of the responses handed to the parsers, without their ids:
\* events of the Bet365 and generic APIs
Str_a == <<"a">>
Str_c == <<"c">>
Selection(sel_name, price) == [name |-> sel_name, price |-> price]
Event(match_name, market_type, selections) ==
    [name |-> match_name, markets |-> <<[type |-> market_type, selections |-> selections]>>]
EventChoices ==
    {Event(Title(Str_a, Str_c), "1X2",
           <<Selection(Str_a, RInt(2)), Selection(Str_Draw, RInt(3)), Selection(Str_c, RInt(4))>>),
     Event(Str_a \o Str_dash \o Str_c, "Match Winner",
           <<Selection(Str_a, RInt(2)), Selection(Str_c, RInt(3))>>),
     Event(Title(Str_a, Str_c), "Match Result", <<Selection(Str_a, RInt(2))>>),
     Event(Null, "1X2",
           <<Selection(Str_a, RInt(2)), Selection(Str_Draw, RInt(3)), Selection(Str_c, RInt(4))>>),
     Event(Title(Str_a, Str_c), "1X2",
           <<Selection(Str_a, RInt(2)), Selection(Str_Draw, NotANumber), Selection(Str_c, RInt(4))>>),
     Event(Str_a, "1X2",
           <<Selection(Str_1, RInt(2)), Selection(Str_X, RInt(3)), Selection(Str_2, RInt(4))>>),
     Event(Title(Str_a, Str_c), "1X2",
           <<Selection(Str_Home, RInt(2)), Selection(Str_Away, RInt(3))>>)}

\* market books of the Betfair API
Runner(runner_name, prices) == [runnerName |-> runner_name, availableToBack |-> prices]
MarketBook(match_name, runners) == [name |-> match_name, runners |-> runners]
MarketBookChoices ==
    {MarketBook(Title(Str_a, Str_c),
                <<Runner(Str_a, <<RInt(2)>>), Runner(Str_Draw, <<RInt(3)>>),
                  Runner(Str_c, <<RInt(3), RInt(4)>>)>>),
     MarketBook(Str_a \o Str_dash \o Str_c,
                <<Runner(Str_a, <<>>), Runner(Str_c, <<RInt(3)>>)>>),
     MarketBook(Title(Str_a, Str_c), <<Runner(Str_a, <<RInt(2)>>)>>),
     MarketBook(Null, <<Runner(Str_a, <<RInt(2)>>), Runner(Str_c, <<RInt(4)>>)>>),
     MarketBook(Title(Str_a, Str_c),
                <<Runner(Str_a, <<RInt(2), NotANumber>>), Runner(Str_c, <<RInt(4)>>)>>),
     MarketBook(Title(Str_a, Str_c),
                <<Runner(Str_1, <<NotANumber>>), Runner(Str_2, <<RInt(4)>>)>>)}

\* the record with the external id the API gives it: here its position
WithId(record, i) == [f \in DOMAIN record \cup {"id"} |-> IF f = "id" THEN i ELSE record[f]]
Responses(shape, choices) ==
    {[shape |-> shape, records |-> [i \in 1..Len(rs) |-> WithId(rs[i], i)]] :
        rs \in SeqsUpTo(choices, MaxRecords)}
NoResponse == [shape |-> "none", records |-> <<>>]

\* the match dicts handed to update_odds: two events with the id m1 (the
\* scrapers number their fixed and their generated events both from m1), an
\* active and an inactive one with the id m2, and one never normalized
StoreEvent(id, match_name, normalized_match, is_active, outcomes) ==
    [id |-> id, match |-> match_name, normalized_match |-> normalized_match,
     is_active |-> is_active, outcomes |-> outcomes]
ThreeWay(h, d, a) == [s \in Slots |-> IF s = "home" THEN h ELSE IF s = "draw" THEN d ELSE a]
StoreEventChoices ==
    {StoreEvent("m1", "t1", "k1", TRUE, ThreeWay(RInt(2), RInt(3), RInt(4))),
     StoreEvent("m1", "t2", "k2", TRUE, ThreeWay(RInt(3), RInt(3), RInt(2))),
     StoreEvent("m2", "t2", "k2", TRUE, ThreeWay(RInt(4), RInt(3), RInt(2))),
     StoreEvent("m2", "t1", "k1", FALSE, ThreeWay(RInt(2), RInt(3), RInt(4))),
     StoreEvent("m1", "t1", NoneValue, TRUE, ThreeWay(RInt(2), RInt(3), RInt(4)))}
StoreLists == SeqsUpTo(StoreEventChoices, MaxStoreEvents)
StoreBookmakers == {"b1", "B1", "b2"}

\* the opportunities handed to the store: what find_arbitrage_opportunities
\* builds, which sets is_active to True; 1.0, 1.08 and 1.15 percent
OppMatches == {"k1", "k2"}
OppProfits == {RInt(1), Rat(27, 25), Rat(23, 20)}
OpportunityData ==
    [normalized_match : OppMatches, profit_percentage : OppProfits, is_active : {TRUE},
     start_time : {NoStartTime, 1}]
OpportunityLists ==
    SeqsUpTo({d \in OpportunityData : d.normalized_match = "k1" /\ d.start_time = 1}, 2)
\* `datetime.now() - timedelta(hours=max_age_hours)`, in the hours of start_time
CutoffTimes == {1, 2}

\* what an earlier run has left in the database file: one active match of
\* bookmaker b1, and two active opportunities
StoredMatches == <<MatchRow(StoreEvent("m1", "t1", "k1", TRUE, ThreeWay(RInt(2), RInt(3), RInt(4))), "b1")>>
StoredOpportunities ==
    <<[normalized_match |-> "k1", profit_percentage |-> RInt(1), is_active |-> TRUE,
       start_time |-> 1],
      [normalized_match |-> "k2", profit_percentage |-> Rat(23, 20), is_active |-> TRUE,
       start_time |-> 1]>>
\* the steps in which the clock is read
TickSeconds == CacheLifetime \div 2

NotCalled == [called |-> FALSE]
OppNotCalled == [called |-> FALSE, n |-> 0]

IdleCalc == odds_list = <<>> /\ stake = 0 /\ calc_result = NotCalled
IdleFind ==
    /\ all_odds = [b \in Bookmakers |-> <<>>]
    /\ profit_threshold = RZero
    /\ boosts = [k \in Keys |-> NoBoost]
    /\ find_result = NotCalled
    /\ second_result = NotCalled
IdleNorm == name = <<>> /\ norm_result = <<>>
IdleKey == team1 = <<>> /\ team2 = <<>> /\ key_calls = <<>>
IdleParse == response = NoResponse /\ parse_result = NotCalled
IdleStore ==
    /\ db_bookmakers = {}
    /\ db_matches = <<>>
    /\ odds_cache = EmptyCache
    /\ cache_fresh = FALSE
    /\ store_calls = <<>>
    /\ get_result = NotCalled
IdleOpp == db_opps = <<>> /\ opp_call = OppNotCalled
IdleCache ==
    /\ now = 0 /\ last_cache_update = 0 /\ opportunities_cache = <<>>
    /\ odds_fetched_at = 0 /\ opps_fetched_at = 0 /\ cache_read = NotCalled
IdleThread == thread_pc = <<>> /\ thread_local = <<>> /\ thread_calls = <<>>
IdleRequest ==
    /\ max_retries = 0 /\ attempt = 0 /\ attempts = <<>> /\ sleeps = <<>>
    /\ request_result = NotCalled
IdleCli ==
    /\ running = FALSE /\ cli_args = <<>> /\ cli_pc = <<>> /\ elapsed = 0 /\ sleep_i = 0
    /\ stop_called = FALSE /\ pass_after_stop = FALSE /\ cycles = 0
IdleRecommend ==
    /\ odds_data = <<>> /\ recommend_result = NotCalled
IdleDash ==
    /\ is_running = FALSE /\ timers = 0 /\ updating = 0 /\ dash_cycles = 0 /\ stopped_cycles = 0

(***************************************************************************)
(* Calls of the two calculators.                                           *)
(***************************************************************************)
InitCalc ==
    /\ pc = "calc_ready"
    /\ odds_list \in SeqsUpTo(CalcOdds, MaxLegs)
    /\ stake \in Stakes
    /\ calc_result = NotCalled
    /\ IdleFind /\ IdleNorm /\ IdleKey /\ IdleParse /\ IdleStore /\ IdleOpp /\ IdleCache /\ IdleThread /\ IdleRequest /\ IdleCli /\ IdleDash /\ IdleRecommend

CalculateArbitrage ==
    /\ pc = "calc_ready"
    /\ calc_result' = [called |-> TRUE, fn |-> "calculate_arbitrage", raised |-> FALSE,
                       value |-> calculate_arbitrage(odds_list, RInt(stake))]
    /\ pc' = "calc_done"
    /\ UNCHANGED <<odds_list, stake, notCalcVars>>

CalculateOptimalStakes ==
    /\ pc = "calc_ready"
    /\ calc_result' =
          IF OptimalStakesRaises(odds_list)
          THEN [called |-> TRUE, fn |-> "calculate_optimal_stakes", raised |-> TRUE]
          ELSE [called |-> TRUE, fn |-> "calculate_optimal_stakes", raised |-> FALSE,
                value |-> calculate_optimal_stakes(odds_list, RInt(stake))]
    /\ pc' = "calc_done"
    /\ UNCHANGED <<odds_list, stake, notCalcVars>>

NextCalc == CalculateArbitrage \/ CalculateOptimalStakes
SpecCalc == InitCalc /\ [][NextCalc]_vars

(***************************************************************************)
(* A call of find_arbitrage_opportunities.                                 *)
(***************************************************************************)
\* Bookmaker names and match keys are only compared for equality, so of the
\* inputs that differ by a renaming one is kept: the bookmaker iterated first
\* has events unless none has, and the first key met is "k1".
InitFind ==
    /\ pc = "find_ready"
    /\ \E n1 \in 0..MaxEvents : \E n2 \in 0..(MaxEvents - n1) :
          \E s1 \in [1..n1 -> MatchDicts], s2 \in [1..n2 -> MatchDicts] :
             /\ n1 = 0 => n2 = 0
             /\ n1 > 0 => s1[1].normalized_match = "k1"
             /\ all_odds = [b \in Bookmakers |-> IF b = "b1" THEN s1 ELSE s2]
    /\ profit_threshold \in Thresholds
    /\ boosts = [k \in Keys |-> NoBoost]
    /\ find_result = NotCalled
    /\ second_result = NotCalled
    /\ IdleCalc /\ IdleNorm /\ IdleKey /\ IdleParse /\ IdleStore /\ IdleOpp /\ IdleCache /\ IdleThread /\ IdleRequest /\ IdleCli /\ IdleDash /\ IdleRecommend

\* The draws a call makes for the match with key k: three when its best odds
\* list has all three legs, none when the loop skips it.
BoostOptions(ao, k) ==
    LET bookmaker_matches == Group(Flatten(ao), k) IN
    IF TooFewMatches(bookmaker_matches) THEN {NoBoost}
    ELSE IF MissingLeg(BestOddsList(BestOdds(bookmaker_matches))) THEN {NoBoost}
    ELSE BoostChoices

FindArbitrageOpportunities ==
    /\ pc = "find_ready"
    /\ \E d1 \in BoostOptions(all_odds, "k1") : \E d2 \in BoostOptions(all_odds, "k2") :
          LET bfun == [k \in Keys |-> IF k = "k1" THEN d1 ELSE d2] IN
          \E r \in {find_arbitrage_opportunities(all_odds, profit_threshold, bfun)} :
          /\ find_result' = [called |-> TRUE, raised |-> r.raised,
                             opportunities |-> r.opportunities]
          /\ boosts' = [k \in Keys |-> IF k \in r.analysed THEN bfun[k] ELSE NoBoost]
    /\ pc' = "find_done"
    /\ UNCHANGED <<all_odds, profit_threshold, second_result, notFindVars>>

NextFind == FindArbitrageOpportunities
SpecFind == InitFind /\ [][NextFind]_vars

(***************************************************************************)
(* Two calls of find_arbitrage_opportunities on the same arguments.        *)
(***************************************************************************)
\* the second call: its own draws of np.random.uniform
FindArbitrageOpportunitiesAgain ==
    /\ pc = "find_done"
    /\ \E d1 \in BoostOptions(all_odds, "k1") : \E d2 \in BoostOptions(all_odds, "k2") :
          LET bfun == [k \in Keys |-> IF k = "k1" THEN d1 ELSE d2] IN
          \E r \in {find_arbitrage_opportunities(all_odds, profit_threshold, bfun)} :
          second_result' = [called |-> TRUE, raised |-> r.raised,
                            opportunities |-> r.opportunities,
                            boosts |-> [k \in Keys |-> IF k \in r.analysed THEN bfun[k]
                                                       ELSE NoBoost]]
    /\ pc' = "find_twice"
    /\ UNCHANGED <<all_odds, profit_threshold, boosts, find_result, notFindVars>>

NextTwice == FindArbitrageOpportunities \/ FindArbitrageOpportunitiesAgain
SpecTwice == InitFind /\ [][NextTwice]_vars

(***************************************************************************)
(* normalize_team_name, applied to a name and then to its own result.      *)
(***************************************************************************)
InitNorm ==
    /\ pc = "norm_ready"
    /\ name \in Names
    /\ norm_result = <<>>
    /\ IdleCalc /\ IdleFind /\ IdleKey /\ IdleParse /\ IdleStore /\ IdleOpp /\ IdleCache /\ IdleThread /\ IdleRequest /\ IdleCli /\ IdleDash /\ IdleRecommend

NormalizeTeamName ==
    /\ pc = "norm_ready"
    /\ norm_result' = <<normalize_team_name(name)>>
    /\ pc' = "norm_once"
    /\ UNCHANGED <<name, notNormVars>>

NormalizeAgain ==
    /\ pc = "norm_once"
    /\ norm_result' = Append(norm_result, normalize_team_name(norm_result[1]))
    /\ pc' = "norm_twice"
    /\ UNCHANGED <<name, notNormVars>>

NextNorm == NormalizeTeamName \/ NormalizeAgain
SpecNorm == InitNorm /\ [][NextNorm]_vars

(***************************************************************************)
(* The key of one event under both orders of its two teams: match_key on   *)
(* the team names, then the scraper's statements on the title.             *)
(***************************************************************************)
InitKey ==
    /\ pc = "key_ready"
    /\ team1 \in TeamNames
    /\ team2 \in TeamNames
    /\ key_calls = <<>>
    /\ IdleCalc /\ IdleFind /\ IdleNorm /\ IdleParse /\ IdleStore /\ IdleOpp /\ IdleCache /\ IdleThread /\ IdleRequest /\ IdleCli /\ IdleDash /\ IdleRecommend

\* match_key(team1, team2)
MatchKey ==
    /\ pc = "key_ready"
    /\ key_calls' = Append(key_calls, match_key(team1, team2))
    /\ pc' = "key_api"
    /\ UNCHANGED <<team1, team2, notKeyVars>>

\* match_key(team2, team1)
MatchKeySwapped ==
    /\ pc = "key_api"
    /\ key_calls' = Append(key_calls, match_key(team2, team1))
    /\ pc' = "key_api_swapped"
    /\ UNCHANGED <<team1, team2, notKeyVars>>

\* a scrape_* function on an event titled "team1 vs team2"
ScrapeEvent ==
    /\ pc = "key_api_swapped"
    /\ key_calls' = Append(key_calls, scraper_normalized_match(Title(team1, team2)))
    /\ pc' = "key_scraper"
    /\ UNCHANGED <<team1, team2, notKeyVars>>

\* a scrape_* function on an event titled "team2 vs team1"
ScrapeEventSwapped ==
    /\ pc = "key_scraper"
    /\ key_calls' = Append(key_calls, scraper_normalized_match(Title(team2, team1)))
    /\ pc' = "key_done"
    /\ UNCHANGED <<team1, team2, notKeyVars>>

NextKey == MatchKey \/ MatchKeySwapped \/ ScrapeEvent \/ ScrapeEventSwapped
SpecKey == InitKey /\ [][NextKey]_vars

(***************************************************************************)
(* A call of find_arbitrage_opportunities on a batch in which every match  *)
(* is quoted on all three outcomes by both bookmakers, so that every match *)
(* yields an opportunity and the final sort has a list to order.           *)
(***************************************************************************)
InitRank ==
    /\ pc = "rank_ready"
    /\ \E order \in KeyOrders : \E q1, q2 \in [RankKeys -> RankMaps] :
          all_odds = [b \in Bookmakers |->
                         IF b = "b1"
                         THEN [i \in 1..MaxMatches |->
                                  [normalized_match |-> order[i], outcomes |-> q1[order[i]]]]
                         ELSE [i \in 1..MaxMatches |->
                                  [normalized_match |-> KeyNames[i],
                                   outcomes |-> q2[KeyNames[i]]]]]
    /\ profit_threshold = RZero
    /\ boosts = [k \in RankKeys |-> NoBoost]
    /\ find_result = NotCalled
    /\ second_result = NotCalled
    /\ IdleCalc /\ IdleNorm /\ IdleKey /\ IdleParse /\ IdleStore /\ IdleOpp /\ IdleCache /\ IdleThread /\ IdleRequest /\ IdleCli /\ IdleDash /\ IdleRecommend

\* every match of the batch has its three legs: three draws for each
FindArbitrageOpportunitiesInBatch ==
    /\ pc = "rank_ready"
    /\ \E bfun \in [RankKeys -> BoostChoices] :
          \E r \in {find_arbitrage_opportunities(all_odds, profit_threshold, bfun)} :
          /\ find_result' = [called |-> TRUE, raised |-> r.raised,
                             opportunities |-> r.opportunities]
          /\ boosts' = [k \in RankKeys |-> IF k \in r.analysed THEN bfun[k] ELSE NoBoost]
    /\ pc' = "rank_done"
    /\ UNCHANGED <<all_odds, profit_threshold, second_result, notFindVars>>

NextRank == FindArbitrageOpportunitiesInBatch
SpecRank == InitRank /\ [][NextRank]_vars

(***************************************************************************)
(* A call of one of the three parsers on a response of its API.            *)
(***************************************************************************)
InitParse ==
    /\ pc = "parse_ready"
    /\ response \in Responses("events", EventChoices)
                       \cup Responses("market_books", MarketBookChoices)
    /\ parse_result = NotCalled
    /\ IdleCalc /\ IdleFind /\ IdleNorm /\ IdleKey /\ IdleStore /\ IdleOpp /\ IdleCache /\ IdleThread /\ IdleRequest /\ IdleCli /\ IdleDash /\ IdleRecommend

ParseBet365Odds ==
    /\ pc = "parse_ready"
    /\ response.shape = "events"
    /\ parse_result' = [called |-> TRUE, fn |-> "parse_bet365_odds", raised |-> FALSE,
                        matches |-> parse_bet365_odds(response)]
    /\ pc' = "parse_done"
    /\ UNCHANGED <<response, notParseVars>>

ParseBetfairOdds ==
    /\ pc = "parse_ready"
    /\ response.shape = "market_books"
    /\ parse_result' = [called |-> TRUE, fn |-> "parse_betfair_odds", raised |-> FALSE,
                        matches |-> parse_betfair_odds(response)]
    /\ pc' = "parse_done"
    /\ UNCHANGED <<response, notParseVars>>

ParseGenericOdds ==
    /\ pc = "parse_ready"
    /\ response.shape = "events"
    /\ parse_result' = [called |-> TRUE, fn |-> "parse_generic_odds", raised |-> FALSE,
                        matches |-> parse_generic_odds(response, "stoiximan")]
    /\ pc' = "parse_done"
    /\ UNCHANGED <<response, notParseVars>>

NextParse == ParseBet365Odds \/ ParseBetfairOdds \/ ParseGenericOdds
SpecParse == InitParse /\ [][NextParse]_vars

(***************************************************************************)
(* The odds store: update_odds and get_odds calls in any order, and the    *)
(* cache ageing.                                                           *)
(***************************************************************************)
\* The database file outlives the process: it is new, or an earlier run has
\* left the row of bookmaker b1 in it.
InitStore ==
    /\ pc = "store"
    /\ db_bookmakers \in {{}, {"b1"}}
    /\ db_matches = <<>>
    /\ odds_cache = EmptyCache
    /\ cache_fresh = FALSE
    /\ store_calls = <<>>
    /\ get_result = NotCalled
    /\ IdleCalc /\ IdleFind /\ IdleNorm /\ IdleKey /\ IdleParse /\ IdleOpp /\ IdleCache /\ IdleThread /\ IdleRequest /\ IdleCli /\ IdleDash /\ IdleRecommend

\* update_odds(matches, bookmaker): the cache is invalidated unless
\* store_matches_and_odds raises; the exception is logged and swallowed
UpdateOdds ==
    /\ pc = "store"
    /\ Len(store_calls) < MaxUpdates
    /\ \E matches \in StoreLists, bookmaker \in StoreBookmakers :
       \E detached \in DetachedOutcomes(db_bookmakers, matches, bookmaker) :
       \E r \in {store_matches_and_odds(db_bookmakers, db_matches, matches, bookmaker,
                                        detached)} :
          /\ db_bookmakers' = r.bookmakers
          /\ db_matches' = r.rows
          /\ odds_cache' = IF r.raised THEN odds_cache ELSE EmptyCache
          /\ cache_fresh' = IF r.raised THEN cache_fresh ELSE FALSE
          /\ store_calls' = Append(store_calls,
                               [matches |-> matches, bookmaker |-> bookmaker,
                                ok |-> ~r.raised,
                                held |-> \E i \in 1..Len(db_matches) :
                                            db_matches[i].bookmaker
                                               = BookmakerRow(db_bookmakers, bookmaker)])
    /\ UNCHANGED <<pc, get_result, notStoreVars>>

\* get_odds(bookmaker)
GetOdds ==
    /\ pc = "store"
    /\ \E bookmaker \in StoreBookmakers :
       \E d \in {get_all_odds(odds_cache, cache_fresh, db_matches)} :
          /\ odds_cache' = d
          /\ cache_fresh' = (CacheValid(odds_cache, cache_fresh) => cache_fresh)
          /\ get_result' = [called |-> TRUE, bookmaker |-> bookmaker,
                            events |-> DictGet(d, bookmaker), after |-> Len(store_calls)]
    /\ UNCHANGED <<pc, db_bookmakers, db_matches, store_calls, notStoreVars>>

\* 60 seconds pass since last_cache_update
CacheExpires ==
    /\ pc = "store"
    /\ cache_fresh
    /\ cache_fresh' = FALSE
    /\ UNCHANGED <<pc, db_bookmakers, db_matches, odds_cache, store_calls, get_result,
                   notStoreVars>>

NextStore == UpdateOdds \/ GetOdds \/ CacheExpires
SpecStore == InitStore /\ [][NextStore]_vars

(***************************************************************************)
(* The opportunity table: calls of store_arbitrage_opportunity,            *)
(* store_arbitrage_opportunities, mark_opportunity_inactive and            *)
(* clear_old_data in any order.  The table matches is empty here, so the   *)
(* first update of clear_old_data selects no row.                          *)
(***************************************************************************)
InitOpps ==
    /\ pc = "opps"
    /\ db_opps = <<>>
    /\ opp_call = OppNotCalled
    /\ IdleCalc /\ IdleFind /\ IdleNorm /\ IdleKey /\ IdleParse /\ IdleStore /\ IdleCache /\ IdleThread /\ IdleRequest /\ IdleCli /\ IdleDash /\ IdleRecommend

StoreArbitrageOpportunity ==
    /\ pc = "opps"
    /\ opp_call.n < MaxOppCalls
    /\ \E opportunity_data \in OpportunityData :
       \E existing_opp \in ExistingOpportunities(db_opps, opportunity_data) :
          /\ db_opps' = store_arbitrage_opportunity(db_opps, opportunity_data, existing_opp)
          /\ opp_call' = [called |-> TRUE, n |-> opp_call.n + 1,
                          fn |-> "store_arbitrage_opportunity",
                          arg |-> opportunity_data,
                          returned |-> IF existing_opp # 0 THEN existing_opp
                                       ELSE Len(db_opps) + 1]
    /\ UNCHANGED <<pc, notOppVars>>

StoreArbitrageOpportunities ==
    /\ pc = "opps"
    /\ opp_call.n < MaxOppCalls
    /\ \E opportunities \in OpportunityLists :
       \E rows \in store_arbitrage_opportunities(db_opps, opportunities) :
          /\ db_opps' = rows
          /\ opp_call' = [called |-> TRUE, n |-> opp_call.n + 1,
                          fn |-> "store_arbitrage_opportunities",
                          arg |-> opportunities, returned |-> Len(opportunities)]
    /\ UNCHANGED <<pc, notOppVars>>

MarkOpportunityInactive ==
    /\ pc = "opps"
    /\ opp_call.n < MaxOppCalls
    /\ \E opportunity_id \in 1..(Len(db_opps) + 1) :
       \E r \in {mark_opportunity_inactive(db_opps, opportunity_id)} :
          /\ db_opps' = r.rows
          /\ opp_call' = [called |-> TRUE, n |-> opp_call.n + 1,
                          fn |-> "mark_opportunity_inactive",
                          arg |-> opportunity_id, returned |-> r.success]
    /\ UNCHANGED <<pc, notOppVars>>

ClearOldData ==
    /\ pc = "opps"
    /\ opp_call.n < MaxOppCalls
    /\ \E cutoff_time \in CutoffTimes :
       \E r \in {clear_old_data(db_opps, cutoff_time)} :
          /\ db_opps' = r.rows
          /\ opp_call' = [called |-> TRUE, n |-> opp_call.n + 1, fn |-> "clear_old_data",
                          arg |-> cutoff_time, returned |-> r.opps_result]
    /\ UNCHANGED <<pc, notOppVars>>

NextOpps ==
    StoreArbitrageOpportunity \/ StoreArbitrageOpportunities \/ MarkOpportunityInactive
       \/ ClearOldData
SpecOpps == InitOpps /\ [][NextOpps]_vars

(***************************************************************************)
(* The two caches of data_store: reads of either cache,                    *)
(* mark_opportunity_inactive, and time passing.                            *)
(***************************************************************************)
InitCache ==
    /\ pc = "cache"
    /\ db_bookmakers = {"b1"}
    /\ db_matches = StoredMatches
    /\ db_opps = StoredOpportunities
    /\ odds_cache = EmptyCache
    /\ opportunities_cache = <<>>
    /\ now = 0
    /\ last_cache_update = 0 - InvalidationAge
    /\ odds_fetched_at = 0
    /\ opps_fetched_at = 0
    /\ cache_read = NotCalled
    /\ cache_fresh = FALSE /\ store_calls = <<>> /\ get_result = NotCalled
    /\ opp_call = OppNotCalled
    /\ IdleCalc /\ IdleFind /\ IdleNorm /\ IdleKey /\ IdleParse /\ IdleThread /\ IdleRequest /\ IdleCli /\ IdleDash /\ IdleRecommend

\* get_all_odds()
GetAllOdds ==
    /\ pc = "cache"
    /\ \E hit \in {CacheValid(odds_cache, Fresh(now, last_cache_update))} :
       \E d \in {get_all_odds(odds_cache, Fresh(now, last_cache_update), db_matches)} :
          /\ odds_cache' = d
          /\ last_cache_update' = IF hit THEN last_cache_update ELSE now
          /\ odds_fetched_at' = IF hit THEN odds_fetched_at ELSE now
          /\ cache_read' = [called |-> TRUE, fn |-> "get_all_odds", value |-> d,
                            hit |-> hit, at |-> now,
                            fetched_at |-> IF hit THEN odds_fetched_at ELSE now]
    /\ UNCHANGED <<pc, db_bookmakers, db_matches, cache_fresh, store_calls, get_result,
                   oppVars, now, opportunities_cache, opps_fetched_at, notDataVars>>

\* get_arbitrage_opportunities(active_only)
GetArbitrageOpportunities ==
    /\ pc = "cache"
    /\ \E active_only \in BOOLEAN :
       \E hit \in {OpportunitiesCacheValid(opportunities_cache, now, last_cache_update)} :
       \E r \in {get_arbitrage_opportunities(opportunities_cache, now, last_cache_update,
                                             db_opps, active_only)} :
          /\ opportunities_cache' = IF hit THEN opportunities_cache ELSE r
          /\ last_cache_update' = IF hit THEN last_cache_update ELSE now
          /\ opps_fetched_at' = IF hit THEN opps_fetched_at ELSE now
          /\ cache_read' = [called |-> TRUE, fn |-> "get_arbitrage_opportunities",
                            active_only |-> active_only, value |-> r,
                            rows |-> db_opps, hit |-> hit, at |-> now,
                            fetched_at |-> IF hit THEN opps_fetched_at ELSE now]
    /\ UNCHANGED <<pc, storeVars, oppVars, now, odds_fetched_at, notDataVars>>

\* data_store.mark_opportunity_inactive(opportunity_id)
InvalidateOpportunity ==
    /\ pc = "cache"
    /\ \E opportunity_id \in 1..(Len(db_opps) + 1) :
       \E r \in {mark_opportunity_inactive(db_opps, opportunity_id)} :
          /\ db_opps' = r.rows
    /\ opportunities_cache' = <<>>
    /\ last_cache_update' = now - InvalidationAge
    /\ UNCHANGED <<pc, storeVars, opp_call, now, odds_fetched_at, opps_fetched_at,
                   cache_read, notDataVars>>

\* the clock advances
Tick ==
    /\ pc = "cache"
    /\ now < MaxTicks * TickSeconds
    /\ now' = now + TickSeconds
    /\ UNCHANGED <<pc, storeVars, oppVars, last_cache_update, opportunities_cache,
                   odds_fetched_at, opps_fetched_at, cache_read, notDataVars>>

NextCache == GetAllOdds \/ GetArbitrageOpportunities \/ InvalidateOpportunity \/ Tick
SpecCache == InitCache /\ [][NextCache]_vars

(***************************************************************************)
(* get_all_odds calls of one thread while update_odds runs in another, as  *)
(* the store thread app.update_data starts does.  A step is one statement  *)
(* of data_store.py; the call into db_service is one step, the database    *)
(* committing the store at once.  The clock does not advance: the calls    *)
(* lie within a second.                                                    *)
(***************************************************************************)
InitReaders ==
    /\ pc = "threads"
    /\ db_bookmakers = {"b1"}
    /\ db_matches = StoredMatches
    /\ odds_cache = EmptyCache
    /\ now = 0
    /\ last_cache_update = 0 - InvalidationAge
    /\ thread_pc = [reader |-> "idle", writer |-> "idle"]
    /\ thread_local = [reader |-> NotCalled, writer |-> NotCalled]
    /\ thread_calls = <<>>
    /\ cache_fresh = FALSE /\ store_calls = <<>> /\ get_result = NotCalled
    /\ opportunities_cache = <<>> /\ odds_fetched_at = 0 /\ opps_fetched_at = 0
    /\ cache_read = NotCalled
    /\ IdleCalc /\ IdleFind /\ IdleNorm /\ IdleKey /\ IdleParse /\ IdleOpp /\ IdleRequest /\ IdleCli /\ IdleDash /\ IdleRecommend

\* what the steps of the two threads leave alone
readersRest ==
    <<pc, db_bookmakers, cache_fresh, store_calls, get_result, oppVars, now,
      opportunities_cache, odds_fetched_at, opps_fetched_at, cache_read, notThreadDataVars>>

ReadsReturned == Cardinality({i \in 1..Len(thread_calls) : thread_calls[i].fn = "get_all_odds"})

\* the reader thread calls get_all_odds()
ReaderCall ==
    /\ thread_pc.reader = "idle"
    /\ ReadsReturned < MaxReads
    /\ thread_pc' = [thread_pc EXCEPT !.reader = "test"]
    /\ thread_local' = [thread_local EXCEPT
                           !.reader = [called |-> TRUE,
                                       started_after |-> thread_pc.writer = "returned"]]
    /\ UNCHANGED <<db_matches, odds_cache, last_cache_update, thread_calls, readersRest>>

\* `if odds_cache and (datetime.now() - last_cache_update).total_seconds() < 60:`
ReaderTest ==
    /\ thread_pc.reader = "test"
    /\ thread_pc' = [thread_pc EXCEPT
                        !.reader = IF CacheValid(odds_cache, Fresh(now, last_cache_update))
                                   THEN "return" ELSE "query"]
    /\ UNCHANGED <<db_matches, odds_cache, last_cache_update, thread_local, thread_calls,
                   readersRest>>

\* the right-hand side of `odds_cache = db_service.get_all_matches_with_odds()`
ReaderQuery ==
    /\ thread_pc.reader = "query"
    /\ thread_pc' = [thread_pc EXCEPT !.reader = "set_cache"]
    /\ thread_local' = [thread_local EXCEPT
                           !.reader = [called |-> TRUE,
                                       started_after |-> thread_local.reader.started_after,
                                       fetched |-> get_all_matches_with_odds(db_matches)]]
    /\ UNCHANGED <<db_matches, odds_cache, last_cache_update, thread_calls, readersRest>>

\* the assignment to the global odds_cache
ReaderSetCache ==
    /\ thread_pc.reader = "set_cache"
    /\ odds_cache' = thread_local.reader.fetched
    /\ thread_pc' = [thread_pc EXCEPT !.reader = "set_time"]
    /\ UNCHANGED <<db_matches, last_cache_update, thread_local, thread_calls, readersRest>>

\* `last_cache_update = datetime.now()`
ReaderSetTime ==
    /\ thread_pc.reader = "set_time"
    /\ last_cache_update' = now
    /\ thread_pc' = [thread_pc EXCEPT !.reader = "return"]
    /\ UNCHANGED <<db_matches, odds_cache, thread_local, thread_calls, readersRest>>

\* `return odds_cache`, of either branch: the global is read again
ReaderReturn ==
    /\ thread_pc.reader = "return"
    /\ thread_calls' = Append(thread_calls,
                          [fn |-> "get_all_odds", value |-> odds_cache,
                           started_after |-> thread_local.reader.started_after])
    /\ thread_pc' = [thread_pc EXCEPT !.reader = "idle"]
    /\ UNCHANGED <<db_matches, odds_cache, last_cache_update, thread_local, readersRest>>

\* the store thread calls update_odds(matches, "b1"), once
WriterCall ==
    /\ thread_pc.writer = "idle"
    /\ \E matches \in StoreLists :
          thread_local' = [thread_local EXCEPT
                              !.writer = [called |-> TRUE, matches |-> matches]]
    /\ thread_pc' = [thread_pc EXCEPT !.writer = "store"]
    /\ UNCHANGED <<db_matches, odds_cache, last_cache_update, thread_calls, readersRest>>

\* `db_service.store_matches_and_odds(matches, bookmaker)`; when it raises,
\* update_odds logs the error and returns
WriterStore ==
    /\ thread_pc.writer = "store"
    /\ \E r \in {store_matches_and_odds(db_bookmakers, db_matches,
                                        thread_local.writer.matches, "b1", FALSE)} :
          /\ db_matches' = r.rows
          /\ thread_pc' = [thread_pc EXCEPT
                              !.writer = IF r.raised THEN "failed" ELSE "invalidate_cache"]
          /\ thread_calls' = IF r.raised
                             THEN Append(thread_calls, [fn |-> "update_odds", ok |-> FALSE])
                             ELSE thread_calls
    /\ UNCHANGED <<odds_cache, last_cache_update, thread_local, readersRest>>

\* `odds_cache = {}`
WriterInvalidateCache ==
    /\ thread_pc.writer = "invalidate_cache"
    /\ odds_cache' = EmptyCache
    /\ thread_pc' = [thread_pc EXCEPT !.writer = "invalidate_time"]
    /\ UNCHANGED <<db_matches, last_cache_update, thread_local, thread_calls, readersRest>>

\* `last_cache_update = datetime.now() - timedelta(minutes=10)`, and the return
WriterInvalidateTime ==
    /\ thread_pc.writer = "invalidate_time"
    /\ last_cache_update' = now - InvalidationAge
    /\ thread_pc' = [thread_pc EXCEPT !.writer = "returned"]
    /\ thread_calls' = Append(thread_calls, [fn |-> "update_odds", ok |-> TRUE])
    /\ UNCHANGED <<db_matches, odds_cache, thread_local, readersRest>>

NextReaders ==
    ReaderCall \/ ReaderTest \/ ReaderQuery \/ ReaderSetCache \/ ReaderSetTime
       \/ ReaderReturn \/ WriterCall \/ WriterStore \/ WriterInvalidateCache
       \/ WriterInvalidateTime
SpecReaders == InitReaders /\ [][NextReaders]_vars

(***************************************************************************)
(* Two threads in store_matches_and_odds for bookmaker b1, each with the   *)
(* session scoped_session gives its thread.  The database is the SQLite    *)
(* file of db_models.py: a query sees the committed rows and the session's *)
(* own flushed ones, the first write of a session takes the database's     *)
(* write lock, which the other session's write waits for, and commit or    *)
(* rollback releases it.  While a session holds the lock, `rows` is the    *)
(* table as the session sees it.                                           *)
(***************************************************************************)
StoreThreads == {"t1", "t2"}
OtherThread(t) == IF t = "t1" THEN "t2" ELSE "t1"

InitUpsert ==
    /\ pc = "upsert"
    /\ db_bookmakers = {"b1"}
    /\ db_matches = <<>>
    /\ thread_pc = [t \in StoreThreads |-> "begin"]
    /\ thread_local \in [StoreThreads -> [matches_data : StoreLists, i : {1},
                                          existing_match : {0}, holds_lock : {FALSE},
                                          rows : {<<>>}]]
    /\ thread_calls = <<>>
    /\ odds_cache = EmptyCache /\ cache_fresh = FALSE /\ store_calls = <<>>
    /\ get_result = NotCalled
    /\ IdleCalc /\ IdleFind /\ IdleNorm /\ IdleKey /\ IdleParse /\ IdleOpp /\ IdleCache /\ IdleRequest /\ IdleCli /\ IdleDash /\ IdleRecommend

upsertRest ==
    <<pc, db_bookmakers, odds_cache, cache_fresh, store_calls, get_result, oppVars,
      cacheVars, notThreadDataVars>>

\* the table as the session of thread t sees it
SessionRows(t) == IF thread_local[t].holds_lock THEN thread_local[t].rows ELSE db_matches

\* `bookmaker = get_or_create_bookmaker(bookmaker_name)`, and the loop's test
StoreBegin(t) ==
    /\ thread_pc[t] = "begin"
    /\ thread_pc' = [thread_pc EXCEPT
                        ![t] = IF thread_local[t].matches_data = <<>> THEN "commit"
                               ELSE "query"]
    /\ UNCHANGED <<db_matches, thread_local, thread_calls, upsertRest>>

\* the existing_match query for the event the loop is at
StoreQuery(t) ==
    /\ thread_pc[t] = "query"
    /\ thread_local' =
          [thread_local EXCEPT
              ![t].existing_match =
                  ExistingMatch(SessionRows(t),
                                thread_local[t].matches_data[thread_local[t].i].id, "b1")]
    /\ thread_pc' = [thread_pc EXCEPT ![t] = "write"]
    /\ UNCHANGED <<db_matches, thread_calls, upsertRest>>

\* The update branch (its DELETE of the old odds flushes the session) or the
\* create branch with its flush; a None in a NOT NULL column makes the flush
\* raise, and the except clause rolls back and re-raises.
StoreWrite(t) ==
    /\ thread_pc[t] = "write"
    /\ ~thread_local[OtherThread(t)].holds_lock
    /\ LET l == thread_local[t]
           match_data == l.matches_data[l.i]
       IN  IF ViolatesNotNull(match_data)
           THEN /\ thread_local' = [thread_local EXCEPT ![t].holds_lock = FALSE,
                                                        ![t].rows = <<>>]
                /\ thread_pc' = [thread_pc EXCEPT ![t] = "raised"]
                /\ thread_calls' = Append(thread_calls, [thread |-> t, ok |-> FALSE])
           ELSE /\ thread_local' =
                      [thread_local EXCEPT
                          ![t].holds_lock = TRUE,
                          ![t].rows =
                              IF l.existing_match # 0
                              THEN [SessionRows(t) EXCEPT
                                       ![l.existing_match] = MatchRow(match_data, "b1")]
                              ELSE Append(SessionRows(t), MatchRow(match_data, "b1")),
                          ![t].i = l.i + 1]
                /\ thread_pc' = [thread_pc EXCEPT
                                    ![t] = IF l.i < Len(l.matches_data) THEN "query"
                                           ELSE "commit"]
                /\ UNCHANGED thread_calls
    /\ UNCHANGED <<db_matches, upsertRest>>

\* `session.commit()` and the return
StoreCommit(t) ==
    /\ thread_pc[t] = "commit"
    /\ db_matches' = SessionRows(t)
    /\ thread_local' = [thread_local EXCEPT ![t].holds_lock = FALSE, ![t].rows = <<>>]
    /\ thread_pc' = [thread_pc EXCEPT ![t] = "returned"]
    /\ thread_calls' = Append(thread_calls, [thread |-> t, ok |-> TRUE])
    /\ UNCHANGED upsertRest

NextUpsert ==
    \E t \in StoreThreads : StoreBegin(t) \/ StoreQuery(t) \/ StoreWrite(t) \/ StoreCommit(t)
SpecUpsert == InitUpsert /\ [][NextUpsert]_vars

(***************************************************************************)
(* A call of make_request(url, max_retries=n), attempt by attempt.         *)
(***************************************************************************)
InitRequest ==
    /\ pc = "request_loop"
    /\ max_retries \in 0..MaxRetries
    /\ attempt = 0
    /\ attempts = <<>>
    /\ sleeps = <<>>
    /\ request_result = NotCalled
    /\ IdleCalc /\ IdleFind /\ IdleNorm /\ IdleKey /\ IdleParse /\ IdleStore /\ IdleOpp /\ IdleCache /\ IdleThread /\ IdleCli /\ IdleDash /\ IdleRecommend

\* one pass of `for attempt in range(max_retries):` up to the return, the
\* raise or the sleep
RequestAttempt ==
    /\ pc = "request_loop"
    /\ attempt < max_retries
    /\ \E outcome \in AttemptOutcomes :
          /\ attempts' = Append(attempts, outcome)
          /\ IF outcome = "response"
             THEN /\ request_result' = [called |-> TRUE, raised |-> FALSE,
                                        response |-> Len(attempts) + 1]
                  /\ pc' = "request_done"
             ELSE IF LastAttempt(attempt, max_retries)
                  THEN /\ request_result' = [called |-> TRUE, raised |-> TRUE,
                                             exception |-> Len(attempts) + 1]
                       /\ pc' = "request_done"
                  ELSE /\ request_result' = request_result
                       /\ pc' = "request_sleep"
    /\ UNCHANGED <<max_retries, attempt, sleeps, notRequestVars>>

\* `time.sleep(2 ** attempt)` and the step of the loop
RequestSleep ==
    /\ pc = "request_sleep"
    /\ sleeps' = Append(sleeps, Backoff(attempt))
    /\ attempt' = attempt + 1
    /\ pc' = "request_loop"
    /\ UNCHANGED <<max_retries, attempts, request_result, notRequestVars>>

\* the loop ends without a return: max_retries is 0, the function returns None
RequestFallsThrough ==
    /\ pc = "request_loop"
    /\ attempt >= max_retries
    /\ request_result' = [called |-> TRUE, raised |-> FALSE, response |-> 0]
    /\ pc' = "request_done"
    /\ UNCHANGED <<max_retries, attempt, attempts, sleeps, notRequestVars>>

NextRequest == RequestAttempt \/ RequestSleep \/ RequestFallsThrough
SpecRequest == InitRequest /\ [][NextRequest]_vars

(***************************************************************************)
(* cli.main: the bot thread runs start_bot; the main thread joins it and   *)
(* calls stop_bot on KeyboardInterrupt, after which main returns and the   *)
(* process, the daemon bot thread with it, ends.  A step of the bot thread *)
(* is one test or call of start_bot; the sixty one-second sleeps of a      *)
(* minute, each after a test of running, are one step.                     *)
(***************************************************************************)
\* `max_runtime=None`
NoMaxRuntime == 0

InitCli ==
    /\ pc = "cli"
    /\ running = FALSE
    /\ cli_args \in [refresh_interval : 1..2, max_runtime : {NoMaxRuntime, 1, 2}]
    /\ cli_pc = [bot |-> "start_bot", main |-> "join"]
    /\ elapsed = 0
    /\ sleep_i = 0
    /\ stop_called = FALSE
    /\ pass_after_stop = FALSE
    /\ cycles = 0
    /\ IdleCalc /\ IdleFind /\ IdleNorm /\ IdleKey /\ IdleParse /\ IdleStore /\ IdleOpp /\ IdleCache /\ IdleThread /\ IdleRequest /\ IdleDash /\ IdleRecommend

BotAlive == cli_pc.main # "exited" /\ cli_pc.bot # "returned"

\* `running = True` and `start_time = time.time()`
BotStart ==
    /\ BotAlive /\ cli_pc.bot = "start_bot"
    /\ running' = TRUE
    /\ cli_pc' = [cli_pc EXCEPT !.bot = "while"]
    /\ UNCHANGED <<pc, cli_args, elapsed, sleep_i, stop_called, pass_after_stop, cycles,
                   notCliVars>>

\* `while running:`
BotWhile ==
    /\ BotAlive /\ cli_pc.bot = "while"
    /\ cli_pc' = [cli_pc EXCEPT !.bot = IF running THEN "max_runtime" ELSE "returned"]
    /\ pass_after_stop' = (running /\ stop_called)
    /\ UNCHANGED <<pc, running, cli_args, elapsed, sleep_i, stop_called, cycles, notCliVars>>

\* `if max_runtime and (time.time() - start_time) / 60 >= max_runtime:`
BotMaxRuntime ==
    /\ BotAlive /\ cli_pc.bot = "max_runtime"
    /\ IF cli_args.max_runtime # NoMaxRuntime /\ elapsed >= cli_args.max_runtime
       THEN running' = FALSE /\ cli_pc' = [cli_pc EXCEPT !.bot = "returned"]
       ELSE running' = running /\ cli_pc' = [cli_pc EXCEPT !.bot = "update_data"]
    /\ UNCHANGED <<pc, cli_args, elapsed, sleep_i, stop_called, pass_after_stop, cycles,
                   notCliVars>>

\* `update_data(profit_threshold)`, which catches what its body raises
BotUpdateData ==
    /\ BotAlive /\ cli_pc.bot = "update_data"
    /\ cycles' = cycles + 1
    /\ cli_pc' = [cli_pc EXCEPT !.bot = "if_running"]
    /\ UNCHANGED <<pc, running, cli_args, elapsed, sleep_i, stop_called, pass_after_stop,
                   notCliVars>>

\* `if running:` before the sleep loop
BotIfRunning ==
    /\ BotAlive /\ cli_pc.bot = "if_running"
    /\ cli_pc' = [cli_pc EXCEPT !.bot = IF running THEN "sleep" ELSE "while"]
    /\ sleep_i' = 0
    /\ UNCHANGED <<pc, running, cli_args, elapsed, stop_called, pass_after_stop, cycles,
                   notCliVars>>

\* `for i in range(refresh_interval * 60): if not running: break; time.sleep(1)`
BotSleep ==
    /\ BotAlive /\ cli_pc.bot = "sleep"
    /\ IF sleep_i >= cli_args.refresh_interval \/ ~running
       THEN /\ cli_pc' = [cli_pc EXCEPT !.bot = "while"]
            /\ UNCHANGED <<elapsed, sleep_i>>
       ELSE /\ elapsed < MaxMinutes
            /\ elapsed' = elapsed + 1
            /\ sleep_i' = sleep_i + 1
            /\ UNCHANGED cli_pc
    /\ UNCHANGED <<pc, running, cli_args, stop_called, pass_after_stop, cycles, notCliVars>>

\* KeyboardInterrupt in main: `stop_bot()`
StopBot ==
    /\ cli_pc.main = "join"
    /\ running' = FALSE
    /\ stop_called' = TRUE
    /\ cli_pc' = [cli_pc EXCEPT !.main = "stopped"]
    /\ UNCHANGED <<pc, cli_args, elapsed, sleep_i, pass_after_stop, cycles, notCliVars>>

\* main returns: after stop_bot, or when `bot_thread.is_alive()` is false
MainReturns ==
    /\ cli_pc.main = "stopped" \/ (cli_pc.main = "join" /\ cli_pc.bot = "returned")
    /\ cli_pc' = [cli_pc EXCEPT !.main = "exited"]
    /\ UNCHANGED <<pc, running, cli_args, elapsed, sleep_i, stop_called, pass_after_stop,
                   cycles, notCliVars>>

NextCli ==
    BotStart \/ BotWhile \/ BotMaxRuntime \/ BotUpdateData \/ BotIfRunning \/ BotSleep
       \/ StopBot \/ MainReturns
SpecCli == InitCli /\ [][NextCli]_vars

(***************************************************************************)
(* app.py: the sidebar controls and the timers update_data starts.  A      *)
(* click runs in the script thread, which is busy until the callback has   *)
(* returned; an update_data a timer runs is in its own thread, so clicks   *)
(* and other timers come between its start and its final test.             *)
(***************************************************************************)
InitDash ==
    /\ pc = "dash"
    /\ is_running = FALSE
    /\ timers = 0
    /\ updating = 0
    /\ dash_cycles = 0
    /\ stopped_cycles = 0
    /\ IdleCalc /\ IdleFind /\ IdleNorm /\ IdleKey /\ IdleParse /\ IdleStore /\ IdleOpp /\ IdleCache /\ IdleThread /\ IdleRequest /\ IdleCli /\ IdleRecommend

\* `if st.session_state.is_running: threading.Timer(.., update_data).start()`
ScheduleNext(flag, n) == IF flag THEN n + 1 ELSE n

\* "Start Bot", shown while not running: start_bot, update_data in it
DashStartBot ==
    /\ pc = "dash" /\ ~is_running /\ dash_cycles < MaxCycles
    /\ is_running' = TRUE
    /\ dash_cycles' = dash_cycles + 1
    /\ timers' = ScheduleNext(is_running', timers)
    /\ UNCHANGED <<pc, updating, stopped_cycles, notDashVars>>

\* "Stop Bot", shown while running: stop_bot
DashStopBot ==
    /\ pc = "dash" /\ is_running
    /\ is_running' = FALSE
    /\ UNCHANGED <<pc, timers, updating, dash_cycles, stopped_cycles, notDashVars>>

\* "Refresh Now", disabled while not running: update_data
DashRefreshNow ==
    /\ pc = "dash" /\ is_running /\ dash_cycles < MaxCycles
    /\ dash_cycles' = dash_cycles + 1
    /\ timers' = ScheduleNext(is_running, timers)
    /\ UNCHANGED <<pc, is_running, updating, stopped_cycles, notDashVars>>

\* a timer fires: update_data begins in the timer's thread
TimerFires ==
    /\ pc = "dash" /\ timers > 0 /\ dash_cycles < MaxCycles
    /\ timers' = timers - 1
    /\ updating' = updating + 1
    /\ dash_cycles' = dash_cycles + 1
    /\ stopped_cycles' = IF is_running THEN stopped_cycles ELSE stopped_cycles + 1
    /\ UNCHANGED <<pc, is_running, notDashVars>>

\* the end of an update_data a timer started: the test of is_running
TimerUpdateEnds ==
    /\ pc = "dash" /\ updating > 0
    /\ updating' = updating - 1
    /\ timers' = ScheduleNext(is_running, timers)
    /\ UNCHANGED <<pc, is_running, dash_cycles, stopped_cycles, notDashVars>>

NextDash == DashStartBot \/ DashStopBot \/ DashRefreshNow \/ TimerFires \/ TimerUpdateEnds
SpecDash == InitDash /\ [][NextDash]_vars

(***************************************************************************)
(* A call of recommend_best_odds_combination.                              *)
(***************************************************************************)
InitRecommend ==
    /\ pc = "recommend_ready"
    /\ odds_data \in SeqsUpTo(SeqsUpTo(RecommendOdds, MaxQuotes), MaxOutcomes)
    /\ recommend_result = NotCalled
    /\ IdleCalc /\ IdleFind /\ IdleNorm /\ IdleKey /\ IdleParse /\ IdleStore /\ IdleOpp /\ IdleCache /\ IdleThread /\ IdleRequest /\ IdleCli /\ IdleDash

RecommendBestOddsCombination ==
    /\ pc = "recommend_ready"
    /\ recommend_result' =
          IF RecommendRaises(odds_data)
          THEN [called |-> TRUE, raised |-> TRUE]
          ELSE [called |-> TRUE, raised |-> FALSE,
                value |-> recommend_best_odds_combination(odds_data)]
    /\ pc' = "recommend_done"
    /\ UNCHANGED <<odds_data, notRecommendVars>>

NextRecommend == RecommendBestOddsCombination
SpecRecommend == InitRecommend /\ [][NextRecommend]_vars

Init == InitCalc \/ InitFind \/ InitNorm \/ InitKey \/ InitRank \/ InitParse \/ InitStore
       \/ InitOpps \/ InitCache \/ InitReaders
       \/ InitUpsert \/ InitRequest \/ InitCli \/ InitDash \/ InitRecommend
Next ==
    NextCalc \/ NextFind \/ NextTwice \/ NextNorm \/ NextKey \/ NextRank \/ NextParse
       \/ NextStore \/ NextOpps \/ NextCache \/ NextReaders
       \/ NextUpsert \/ NextRequest \/ NextCli \/ NextDash \/ NextRecommend
Spec == Init /\ [][Next]_vars
(***************************************************************************)
(* Properties of calculate_arbitrage and calculate_optimal_stakes,         *)
(* checked under SpecCalc.                                                 *)
(***************************************************************************)
ArbitrageReturned ==
    /\ pc = "calc_done"
    /\ calc_result.fn = "calculate_arbitrage"
    /\ calc_result.value.is_arbitrage

\* C1: in every result of calculate_arbitrage with is_arbitrage true there is
\* one stake per slot, stake_i * odds_i is the same value for every slot i, and
\* that value is expected_return = stake / sum(1/odds_j).
C1_StakePayoutEquality ==
    ArbitrageReturned =>
        LET v == calc_result.value IN
        /\ Len(v.individual_stakes) = Len(odds_list)
        /\ \A i \in 1..Len(odds_list) :
              RMul(v.individual_stakes[i], odds_list[i]) = v.expected_return
        /\ v.expected_return = RDiv(RInt(stake), SumReciprocals(odds_list))

C1_Witness ==
    /\ ArbitrageReturned
    /\ Len(odds_list) = 3
    /\ stake = 100
    /\ \E i, j \in 1..3 : odds_list[i] # odds_list[j]

WellFormedOdds ==
    /\ odds_list # <<>>
    /\ \A i \in 1..Len(odds_list) : RGt(odds_list[i], ROne)

\* C3: for every (non-empty) odds vector with all odds > 1.0, calculate_arbitrage
\* and calculate_optimal_stakes return is_arbitrage = true if and only if
\* sum(1/odds_i) < 1; a sum equal to 1 is not an arbitrage.
C3_ThresholdCorrectness ==
    (pc = "calc_done" /\ WellFormedOdds) =>
        /\ ~calc_result.raised
        /\ calc_result.value.is_arbitrage <=> RLt(SumReciprocals(odds_list), ROne)

C3_Witness ==
    /\ pc = "calc_done"
    /\ calc_result.fn = "calculate_arbitrage"
    /\ WellFormedOdds
    /\ SumReciprocals(odds_list) = ROne
    /\ ~calc_result.value.is_arbitrage

(***************************************************************************)
(* Properties of find_arbitrage_opportunities, checked under SpecFind.     *)
(***************************************************************************)
Returned == pc = "find_done" /\ ~find_result.raised
Opportunities == find_result.opportunities
OppIdx == 1..Len(Opportunities)
GroupOfKey(k) == Group(Flatten(all_odds), k)
KeysPresent == {e.match_data.normalized_match : e \in {Flatten(all_odds)[i] : i \in 1..Len(Flatten(all_odds))}}
SourcesOf(k) == {GroupOfKey(k)[i].bookmaker : i \in 1..Len(GroupOfKey(k))}
\* the matches whose best odds reached calculate_arbitrage in the call
Analysed == {k \in Keys : boosts[k] # NoBoost}

\* C2: in every returned opportunity, leg.stake * leg.odds equals
\* expected_return for every leg, and profit_percentage equals
\* (1 - sum over the legs of 1/leg.odds) * 100.
C2_LegsConsistent ==
    Returned =>
        \A n \in OppIdx :
            LET opp == Opportunities[n]
                leg_odds == [j \in 1..Len(opp.bets) |-> opp.bets[j].odds]
            IN  /\ \A j \in 1..Len(opp.bets) :
                      RMul(opp.bets[j].stake, opp.bets[j].odds) = opp.expected_return
                /\ opp.profit_percentage =
                      RMul(RSub(ROne, SumReciprocals(leg_odds)), RInt(100))

\* C4: no opportunity is returned for a key unless events of at least 2
\* distinct bookmakers share that key.
C4_CoverageExclusion ==
    Returned =>
        \A n \in OppIdx : Cardinality(SourcesOf(Opportunities[n].normalized_match)) >= 2

\* C5: no leg of a returned opportunity has odds <= 1.0.
C5_NoInvalidLeg ==
    Returned =>
        \A n \in OppIdx : \A j \in 1..Len(Opportunities[n].bets) :
            RGt(Opportunities[n].bets[j].odds, ROne)

\* the outcome types any event of the match quotes
QuotedSlots(k) ==
    UNION {DOMAIN GroupOfKey(k)[i].match_data.outcomes : i \in 1..Len(GroupOfKey(k))}
\* a 2-way match: at least 2 bookmakers, every event quotes exactly home and
\* away, with valid odds
TwoWayCovered(k) ==
    /\ Cardinality(SourcesOf(k)) >= 2
    /\ \A i \in 1..Len(GroupOfKey(k)) :
          LET o == GroupOfKey(k)[i].match_data.outcomes IN
          /\ DOMAIN o = {"home", "away"}
          /\ \A s \in DOMAIN o : RGt(o[s], ROne)

\* C6: a match is analysed if and only if every slot its market type requires
\* has a quote: a 3-way match (some source quotes draw) with quotes for fewer
\* than 3 slots is not analysed, and a 2-way match quoted by at least 2 sources
\* is analysed.
C6_RequiredSlotCoverage ==
    Returned =>
        \A k \in KeysPresent :
            /\ ("draw" \in QuotedSlots(k) /\ QuotedSlots(k) # Slots) => k \notin Analysed
            /\ TwoWayCovered(k) => k \in Analysed

\* the positions in the match's list of the events that quote slot s
Quoting(group, s) == {i \in 1..Len(group) : s \in DOMAIN group[i].match_data.outcomes}
QuoteOf(group, i, s) == group[i].match_data.outcomes[s]
IsMaxQuote(group, i, s) ==
    \A j \in Quoting(group, s) : RGe(QuoteOf(group, i, s), QuoteOf(group, j, s))
\* the first event, in input iteration order, that offers the maximum for s
FirstMaxQuote(group, s) ==
    CHOOSE i \in Quoting(group, s) :
        /\ IsMaxQuote(group, i, s)
        /\ \A j \in Quoting(group, s) : IsMaxQuote(group, j, s) => i <= j

SelectionCorrect(group, s, odds, bookmaker) ==
    /\ Quoting(group, s) # {}
    /\ \E i \in {FirstMaxQuote(group, s)} :
          /\ odds = QuoteOf(group, i, s)
          /\ bookmaker = group[i].bookmaker

\* C7: for every match and every slot some source quotes, the best price
\* selected is the maximum odds any source of the match offers for the slot,
\* from the source met first in input order among those offering it; every
\* leg of a returned opportunity carries that selection.
C7_BestPriceSelection ==
    /\ pc = "find_ready" =>
          \A k \in KeysPresent : \E group \in {GroupOfKey(k)} : \E best \in {BestOdds(group)} :
              \A s \in Slots :
                  Quoting(group, s) # {} =>
                      SelectionCorrect(group, s, best[s].odds, best[s].bookmaker)
    /\ Returned =>
          \A n \in OppIdx : \E group \in {GroupOfKey(Opportunities[n].normalized_match)} :
              \A j \in 1..Len(Opportunities[n].bets) :
                  LET leg == Opportunities[n].bets[j]
                  IN  SelectionCorrect(group, leg.outcome, leg.odds, leg.bookmaker)

\* a returned opportunity one of whose legs was a tie between two bookmakers
\* and another of whose legs was decided by the larger of two different quotes
C7_Witness ==
    /\ Returned
    /\ \E n \in OppIdx :
          LET group == GroupOfKey(Opportunities[n].normalized_match) IN
          /\ Len(Opportunities[n].bets) = 3
          /\ \E s \in Slots : \E i, j \in Quoting(group, s) :
                /\ i < j /\ group[i].bookmaker # group[j].bookmaker
                /\ QuoteOf(group, i, s) = QuoteOf(group, j, s)
          /\ \E s \in Slots : \E i, j \in Quoting(group, s) :
                /\ i < j /\ RLt(QuoteOf(group, i, s), QuoteOf(group, j, s))

\* C8: every returned opportunity has profit_percentage >= profit_threshold.
C8_ThresholdFilter ==
    Returned =>
        \A n \in OppIdx : RGe(Opportunities[n].profit_percentage, profit_threshold)

\* C9: find_arbitrage_opportunities never raises.
C9_NeverRaises == pc = "find_done" => ~find_result.raised

(***************************************************************************)
(* Properties of normalize_team_name, checked under SpecNorm.              *)
(***************************************************************************)
\* C10: normalize_team_name(normalize_team_name(s)) = normalize_team_name(s).
C10_Idempotent == pc = "norm_twice" => norm_result[2] = norm_result[1]

(***************************************************************************)
(* Properties of the key builders, checked under SpecKey.                  *)
(***************************************************************************)
\* the first position at which a and b differ, or past the shorter of them
FirstDifference(a, b) ==
    CHOOSE i \in 1..(Len(a) + Len(b) + 1) :
        /\ \A j \in 1..(i - 1) : j <= Len(a) /\ j <= Len(b) /\ a[j] = b[j]
        /\ i > Len(a) \/ i > Len(b) \/ a[i] # b[i]

\* a <= b lexicographically, by code points
LexLe(a, b) ==
    LET i == FirstDifference(a, b) IN
    \/ i > Len(a)
    \/ i <= Len(b) /\ CharRank(a[i]) < CharRank(b[i])

\* C11: match_key(a, b) = match_key(b, a), and the key is "{lower} vs {higher}"
\* where lower <= higher are the two normalized names in lexicographic order.
C11_MatchKeyOrderIndependent ==
    pc \in {"key_api_swapped", "key_scraper", "key_done"} =>
        /\ key_calls[1] = key_calls[2]
        /\ \E lower, higher \in {normalize_team_name(team1), normalize_team_name(team2)} :
              /\ {lower, higher} = {normalize_team_name(team1), normalize_team_name(team2)}
              /\ LexLe(lower, higher)
              /\ key_calls[1] = lower \o Str_vs \o higher

\* both orders were asked for, of two teams whose normalized names differ and
\* of which the second one comes first in the order
C11_Witness ==
    /\ pc = "key_api_swapped"
    /\ normalize_team_name(team1) # <<>> /\ normalize_team_name(team2) # <<>>
    /\ normalize_team_name(team1) # normalize_team_name(team2)
    /\ LexLe(normalize_team_name(team2), normalize_team_name(team1))
    /\ key_calls[1] = normalize_team_name(team2) \o Str_vs \o normalize_team_name(team1)

\* C12: every producer of normalized_match computes the same key: the scraper's
\* key of the title "A vs B" is its key of "B vs A" and is match_key(A, B).
C12_ProducersAgree ==
    pc = "key_done" =>
        /\ ~key_calls[3].raised /\ ~key_calls[4].raised
        /\ key_calls[3].key = key_calls[4].key
        /\ key_calls[3].key = key_calls[1]

(***************************************************************************)
(* Further properties of the calculators, checked under SpecCalc.          *)
(***************************************************************************)
ArbitrageCalled == pc = "calc_done" /\ calc_result.fn = "calculate_arbitrage"

PreconditionViolated ==
    \/ odds_list = <<>>
    \/ \E i \in 1..Len(odds_list) : RLe(odds_list[i], ROne)
    \/ stake <= 0

\* C13: calculate_arbitrage(odds, stake) never raises, and whenever the odds
\* list is empty, some odds value is <= 1.0, or stake <= 0, it returns
\* is_arbitrage = false, an empty stake allocation and profit_percentage 0.
C13_PreconditionHandling ==
    ArbitrageCalled =>
        /\ ~calc_result.raised
        /\ PreconditionViolated =>
              /\ ~calc_result.value.is_arbitrage
              /\ calc_result.value.individual_stakes = <<>>
              /\ calc_result.value.profit_percentage = RZero

\* C14: for every odds vector with all odds > 1.0 and stake > 0, the returned
\* profit_percentage is (1 - sum(1/odds_i)) * 100, negative when the sum of
\* reciprocals exceeds 1.
C14_ProfitFormula ==
    (pc = "calc_done" /\ WellFormedOdds /\ stake > 0) =>
        /\ ~calc_result.raised
        /\ calc_result.value.profit_percentage =
              RMul(RSub(ROne, SumReciprocals(odds_list)), RInt(100))

\* C15: every result of calculate_arbitrage on an odds vector with all odds
\* > 1.0 and stake > 0, arbitrage or not, carries the total investment, and the
\* sum of its per-slot stakes is that investment, the stake passed in.
C15_StakeConservation ==
    (ArbitrageCalled /\ WellFormedOdds /\ stake > 0) =>
        /\ "investment" \in DOMAIN calc_result.value
        /\ calc_result.value.investment = RInt(stake)
        /\ RSum(calc_result.value.individual_stakes) = RInt(stake)

(***************************************************************************)
(* The order of the returned list, checked under SpecRank.                 *)
(***************************************************************************)
\* the position in the flattened input at which key k is first met
FirstEncounter(k) ==
    LET flat == Flatten(all_odds) IN
    CHOOSE i \in 1..Len(flat) :
        /\ flat[i].match_data.normalized_match = k
        /\ \A j \in 1..(i - 1) : flat[j].match_data.normalized_match # k

\* C16: the list returned by find_arbitrage_opportunities is in non-increasing
\* order of profit_percentage, and opportunities with equal profit_percentage
\* keep the order in which their keys were first encountered in the input.
C16_RankingOrder ==
    (pc = "rank_done" /\ ~find_result.raised) =>
        \E opps \in {find_result.opportunities} :
        \A i, j \in 1..Len(opps) :
            i < j =>
               /\ RGe(opps[i].profit_percentage, opps[j].profit_percentage)
               /\ opps[i].profit_percentage = opps[j].profit_percentage =>
                     FirstEncounter(opps[i].normalized_match)
                        < FirstEncounter(opps[j].normalized_match)

\* two opportunities were returned, the more profitable one first although its
\* match was encountered second
C16_Witness ==
    /\ pc = "rank_done" /\ ~find_result.raised
    /\ Len(find_result.opportunities) >= 2
    /\ RGt(find_result.opportunities[1].profit_percentage,
           find_result.opportunities[2].profit_percentage)
    /\ FirstEncounter(find_result.opportunities[1].normalized_match)
          > FirstEncounter(find_result.opportunities[2].normalized_match)

\* two opportunities of equal profit were returned
C16_TieReturned ==
    /\ pc = "rank_done" /\ ~find_result.raised
    /\ \E i, j \in 1..Len(find_result.opportunities) :
          /\ i < j
          /\ find_result.opportunities[i].profit_percentage
                = find_result.opportunities[j].profit_percentage

(***************************************************************************)
(* Two calls on equal arguments, checked under SpecTwice.                  *)
(***************************************************************************)
\* C17: two invocations of find_arbitrage_opportunities on equal inputs return
\* the same opportunities in the same order, with the same profit_percentage,
\* expected_return and leg stakes.
C17_Deterministic ==
    pc = "find_twice" =>
        /\ second_result.raised = find_result.raised
        /\ second_result.opportunities = find_result.opportunities

(***************************************************************************)
(* Error locality of the parsers, checked under SpecParse.                 *)
(***************************************************************************)
\* what parsing the i-th record of the response on its own gives
RecordOutcome(i) ==
    CASE parse_result.fn = "parse_bet365_odds" ->
            ParseEvent(response.records[i], <<Str_1>>, <<Str_2>>, "bet365")
      [] parse_result.fn = "parse_generic_odds" ->
            ParseEvent(response.records[i], <<Str_Home, Str_1>>, <<Str_Away, Str_2>>,
                       "stoiximan")
      [] parse_result.fn = "parse_betfair_odds" -> ParseMarketBook(response.records[i])

InOutput(i) == \E j \in 1..Len(parse_result.matches) : parse_result.matches[j].id = i

\* C18: in each of the three parsers a record whose parsing raises is skipped,
\* and every other record of the response that parses to at least 2 outcomes
\* appears in the output, whether it comes before or after the bad record.
C18_ParserErrorLocality ==
    pc = "parse_done" =>
        /\ ~parse_result.raised
        /\ \A i \in 1..Len(response.records) :
              \E r \in {RecordOutcome(i)} :
                 /\ r.kind = "raise" => ~InOutput(i)
                 /\ r.kind = "match" => InOutput(i)

(***************************************************************************)
(* Properties of the odds store, checked under SpecStore.                  *)
(***************************************************************************)
\* the fields of an event the round trip is about
EventFields(e) ==
    [id |-> e.id, match |-> e.match, normalized_match |-> e.normalized_match,
     outcomes |-> e.outcomes]

Occurrences(events, f) == Cardinality({i \in 1..Len(events) : EventFields(events[i]) = f})

\* get_odds(b) was called right after the n-th update_odds call, which was for b
\* and stored its list
GotAfterUpdate(n) ==
    /\ get_result.called
    /\ get_result.after = n
    /\ n >= 1
    /\ store_calls[n].ok
    /\ store_calls[n].bookmaker = get_result.bookmaker

\* C19: after update_odds(L, b) succeeds on a store holding no matches of b,
\* every event of L being active, get_odds(b) returns exactly one event for each
\* event of L, with the same id, title, normalized_match and per-slot odds.
C19_RoundTrip ==
    \A n \in 1..Len(store_calls) :
        (/\ GotAfterUpdate(n)
         /\ ~store_calls[n].held
         /\ \A i \in 1..Len(store_calls[n].matches) : store_calls[n].matches[i].is_active)
        => /\ Len(get_result.events) = Len(store_calls[n].matches)
           /\ \A i \in 1..Len(store_calls[n].matches) :
                 \E f \in {EventFields(store_calls[n].matches[i])} :
                    Occurrences(get_result.events, f) = Occurrences(store_calls[n].matches, f)

\* C20: after update_odds(L1, b) followed by update_odds(L2, b), get_odds(b)
\* returns only events of L2: an event of L1 whose id does not occur in L2 is
\* no longer returned.
C20_ReplaceBySource ==
    \A n \in 2..Len(store_calls) :
        (/\ GotAfterUpdate(n)
         /\ store_calls[n - 1].ok
         /\ store_calls[n - 1].bookmaker = get_result.bookmaker)
        => \A j \in 1..Len(get_result.events) :
              \E i \in 1..Len(store_calls[n].matches) :
                 EventFields(store_calls[n].matches[i]) = EventFields(get_result.events[j])

(***************************************************************************)
(* Properties of the opportunity table, checked under SpecOpps.            *)
(***************************************************************************)
NearEqual(p, q) == RLt(RAbs(RSub(p, q)), Rat(1, 10))

\* two active rows of one match whose profits differ by less than 0.1
NearDuplicates ==
    \E i, j \in 1..Len(db_opps) :
       /\ i < j
       /\ db_opps[i].is_active /\ db_opps[j].is_active
       /\ db_opps[i].normalized_match = db_opps[j].normalized_match
       /\ NearEqual(db_opps[i].profit_percentage, db_opps[j].profit_percentage)

\* the active rows of the table before the call that are near-equal to data
NearEqualRows(data) ==
    {i \in 1..Len(db_opps) :
        /\ db_opps[i].is_active
        /\ db_opps[i].normalized_match = data.normalized_match
        /\ NearEqual(db_opps[i].profit_percentage, data.profit_percentage)}

\* the step is a call of function fn
OppCallOf(fn) == opp_call'.n = opp_call.n + 1 /\ opp_call'.fn = fn

\* a store_arbitrage_opportunity call whose opportunity is near-equal to an
\* active row gives that row its profit, changes no other row and adds none
NearEqualCallUpdates ==
    (OppCallOf("store_arbitrage_opportunity") /\ NearEqualRows(opp_call'.arg) # {})
       => /\ Len(db_opps') = Len(db_opps)
          /\ \E i \in NearEqualRows(opp_call'.arg) :
                /\ db_opps'[i].profit_percentage = opp_call'.arg.profit_percentage
                /\ \A j \in 1..Len(db_opps) : j # i => db_opps'[j] = db_opps[j]

\* C21: after any sequence of store_arbitrage_opportunity calls no two active
\* rows have the same normalized_match and profits that differ by less than
\* 0.1, and a call whose opportunity is near-equal to an active row updates
\* that row and creates none.
C21_OpportunityDedup == [](~NearDuplicates) /\ [][NearEqualCallUpdates]_vars

\* C26: an inactive row stays inactive (and stays in the table) under every
\* call of store_arbitrage_opportunity, store_arbitrage_opportunities,
\* mark_opportunity_inactive and clear_old_data, and
\* mark_opportunity_inactive on an unknown id returns False and changes no
\* row.
C26_DeactivationPermanent ==
    [][/\ Len(db_opps') >= Len(db_opps)
       /\ \A i \in 1..Len(db_opps) : ~db_opps[i].is_active => ~db_opps'[i].is_active
       /\ (OppCallOf("mark_opportunity_inactive") /\ opp_call'.arg \notin 1..Len(db_opps))
             => (opp_call'.returned = FALSE /\ db_opps' = db_opps)]_vars

\* an opportunity has been stored that is near-equal to an inactive row of
\* its match, which is still inactive
C26_Witness ==
    /\ opp_call.called /\ opp_call.fn = "store_arbitrage_opportunity"
    /\ \E i \in 1..Len(db_opps) :
          /\ ~db_opps[i].is_active
          /\ db_opps[i].normalized_match = opp_call.arg.normalized_match
          /\ NearEqual(db_opps[i].profit_percentage, opp_call.arg.profit_percentage)

\* mark_opportunity_inactive has been called on an id no row has
C26_UnknownIdMarked ==
    /\ opp_call.called /\ opp_call.fn = "mark_opportunity_inactive"
    /\ db_opps # <<>> /\ opp_call.arg > Len(db_opps)

(***************************************************************************)
(* Properties of the caches of data_store, checked under SpecCache.        *)
(***************************************************************************)
\* C22: get_all_odds and get_arbitrage_opportunities never return a cached
\* value that was read from the database 60 seconds or more before the call,
\* whatever reads of the other cache lie in between.
C22_CacheFreshness ==
    (cache_read.called /\ cache_read.hit) => cache_read.at - cache_read.fetched_at < 60

RECURSIVE IdsOf(_)
IdsOf(opps) == IF opps = <<>> THEN {} ELSE {Head(opps).id} \cup IdsOf(Tail(opps))

\* C23: get_arbitrage_opportunities(active_only=False) returns every stored
\* opportunity, the inactive ones included, and
\* get_arbitrage_opportunities(active_only=True) returns the active ones only,
\* whatever calls of get_arbitrage_opportunities came before.
C23_ActiveOnlyHonoured ==
    (cache_read.called /\ cache_read.fn = "get_arbitrage_opportunities")
       => IdsOf(cache_read.value)
             = {i \in 1..Len(cache_read.rows) :
                   ~cache_read.active_only \/ cache_read.rows[i].is_active}

(***************************************************************************)
(* Reads of the odds cache beside an update, checked under SpecReaders.    *)
(***************************************************************************)
\* C24: once update_odds has returned successfully, every get_all_odds call
\* that starts afterwards returns the contents the database has after the
\* update (the model's one update is the last change of the database).
C24_ReadsSeeUpdate ==
    \A i \in 1..Len(thread_calls) :
       (thread_calls[i].fn = "get_all_odds" /\ thread_calls[i].started_after)
          => thread_calls[i].value = get_all_matches_with_odds(db_matches)

(***************************************************************************)
(* Concurrent stores for one bookmaker, checked under SpecUpsert.          *)
(***************************************************************************)
\* C25: after any interleaving of store_matches_and_odds calls for the same
\* bookmaker, two concurrent calls included, the table holds at most one
\* Match row per (bookmaker, external match id).
C25_UpsertUnique ==
    \A i, j \in 1..Len(db_matches) :
       (db_matches[i].bookmaker = db_matches[j].bookmaker
          /\ db_matches[i].match_id = db_matches[j].match_id) => i = j

(***************************************************************************)
(* The retry protocol of make_request, checked under SpecRequest.          *)
(***************************************************************************)
Failed(i) == attempts[i] # "response"

\* C27: for max_retries = n >= 1, make_request makes at most n attempts,
\* returns the response of the first successful one and makes no attempt
\* after it, sleeps 2^k seconds after the failed attempt k (counted from 0)
\* unless it is attempt n - 1, and after n failed attempts raises the
\* failure of the last.
C27_RetryProtocol ==
    max_retries >= 1 =>
       /\ Len(attempts) <= max_retries
       /\ \A i \in 1..Len(attempts) : ~Failed(i) => i = Len(attempts)
       /\ \A j \in 1..Len(sleeps) : sleeps[j] = 2 ^ (j - 1)
       /\ Len(sleeps) = Cardinality({i \in 1..Len(attempts) : Failed(i) /\ i < max_retries})
                           - (IF pc = "request_sleep" THEN 1 ELSE 0)
       /\ (pc = "request_done") =
             (attempts # <<>> /\ (~Failed(Len(attempts)) \/ Len(attempts) = max_retries))
       /\ pc = "request_done" =>
             IF Failed(Len(attempts))
             THEN request_result.raised /\ request_result.exception = Len(attempts)
             ELSE ~request_result.raised /\ request_result.response = Len(attempts)

\* three attempts have failed: two sleeps, of 1 and 2 seconds, and the third
\* failure is raised
C27_Witness ==
    /\ max_retries = 3 /\ pc = "request_done"
    /\ \A i \in 1..3 : Failed(i)
    /\ sleeps = <<1, 2>>
    /\ request_result.raised

\* the second attempt of three has succeeded
C27_SecondAttemptReturns ==
    /\ max_retries = 3 /\ pc = "request_done"
    /\ Len(attempts) = 2 /\ ~request_result.raised /\ sleeps = <<1>>

(***************************************************************************)
(* Stopping the command-line bot, checked under SpecCli.                   *)
(***************************************************************************)
\* C28 (its first half): once stop_bot has been called, start_bot begins no
\* update_data cycle other than the one whose loop pass was already under
\* way.  A pass is under way from its `while running` test on, and its cycle
\* has begun once update_data was called.
C28_StopHonoured ==
    ~(pass_after_stop /\ cli_pc.bot \in {"if_running", "sleep"})

(***************************************************************************)
(* The dashboard's scheduled refreshes, checked under SpecDash.            *)
(***************************************************************************)
OneScheduledRefresh == timers <= 1
NoCycleWhileStopped == stopped_cycles = 0

\* C29: at any time at most one timer for update_data is pending, and no
\* update_data cycle begins while is_running is false.
C29_RefreshScheduling == OneScheduledRefresh /\ NoCycleWhileStopped

(***************************************************************************)
(* recommend_best_odds_combination, checked under SpecRecommend.           *)
(***************************************************************************)
Recommended == pc = "recommend_done" /\ ~recommend_result.raised
CombinationSet == {generate_combinations(odds_data)[i] : i \in 1..Len(generate_combinations(odds_data))}
IsArbitrageCombination(combo) == RLt(SumReciprocals(combo), ROne)
ExpectedProfit(combo) == calculate_optimal_stakes(combo, RInt(100)).expected_profit
\* the largest odds value of a list
RMaxOf(quotes) == CHOOSE q \in {quotes[i] : i \in 1..Len(quotes)} : \A j \in 1..Len(quotes) : ~RLt(q, quotes[j])
MaxOddsCombination == [k \in 1..Len(odds_data) |-> RMaxOf(odds_data[k])]

\* the arbitrage half of C30: with an arbitrage among the combinations, the
\* returned one has the highest expected profit and takes the maximum odds
\* of every outcome
ArbitrageHalf ==
    (Recommended /\ \E c \in CombinationSet : IsArbitrageCombination(c))
       => /\ \A c \in CombinationSet :
                ~RLt(ExpectedProfit(recommend_result.value.combination), ExpectedProfit(c))
          /\ recommend_result.value.combination = MaxOddsCombination
\* the other half: without one, the returned combination has the smallest
\* sum of reciprocals
NoArbitrageHalf ==
    (Recommended /\ CombinationSet # {} /\ \A c \in CombinationSet : ~IsArbitrageCombination(c))
       => \A c \in CombinationSet :
             ~RLt(SumReciprocals(c), SumReciprocals(recommend_result.value.combination))

\* C30: recommend_best_odds_combination returns the combination of highest
\* expected profit, the one of maximum odds per outcome, when a combination
\* is an arbitrage, and the combination of smallest reciprocal sum when none is.
C30_BestCombination == ArbitrageHalf /\ NoArbitrageHalf
====
